---- MODULE Spec2Model ----
(***************************************************************************)
(* A model of gen-d, a documentation-drift detector for Python sources.    *)
(*                                                                         *)
(*   SpecClassify  the drift classifier (engine/drift/detector.py)         *)
(*   SpecHash      the semantic fingerprint of a callable whose source is  *)
(*                 edited (engine/hash/semantic_hash.py)                   *)
(*   SpecExtract   the visitor that collects the functions of a file       *)
(*                 (engine/parser/extractor.py)                            *)
(*   SpecStore     save_nodes next to load_snapshots, statement by         *)
(*                 statement (engine/storage/database.py)                  *)
(*   SpecScan      the commands scan and status on an edited source tree   *)
(*                 (cli/main.py)                                           *)
(*   SpecOps       the operations of the store, one after another, each    *)
(*                 statement by statement (engine/storage/database.py)     *)
(*   SpecReport    the drift report over every list of nodes and every     *)
(*                 snapshot map (engine/drift/detector.py)                 *)
(*   SpecGraph     the operations of CodeGraph (engine/graph/builder.py)   *)
(*   SpecBuild     build_graph_from_directory file by file, then the scan  *)
(*                 and the status command (engine/graph/builder.py,        *)
(*                 cli/main.py)                                            *)
(*   SpecCalls     the visitor that collects the call sites of a file, and *)
(*   SpecCallee    the callee name of every kind of called expression      *)
(*                 (engine/parser/extractor.py)                            *)
(*   SpecEdges     a CodeGraph filled with nodes and call edges            *)
(*                 (engine/graph/builder.py)                               *)
(*   SpecRescan    scan and status on a source tree that loses and regains *)
(*                 functions, with clear and delete_file_nodes between     *)
(*                 (cli/main.py, engine/storage/database.py)               *)
(*                                                                         *)
(* All specifications share the variables; each leaves the variables of    *)
(* the others at their idle values.                                        *)
(*                                                                         *)
(* Python values are represented as follows.  A str is a sequence of       *)
(* one-character strings (or of printer tokens), so "" is << >>.  An       *)
(* Optional[T] is << >> for None and << v >> for a value v.  A SHA-256     *)
(* hex digest of a text t is the pair << "sha256", t >>: the digest is     *)
(* treated as injective and is never the empty string.                     *)
(***************************************************************************)
EXTENDS Integers, Sequences, FiniteSets, TLC

VARIABLES
    cNode,      \* SpecClassify: the CodeNode handed to detect_node_drift
    cStored,    \* SpecClassify: the Optional[NodeSnapshot] handed to it
    cStatus,    \* SpecClassify: "pending", or the DriftStatus returned
    hBase,      \* SpecHash: the callable as parsed when its snapshot was taken
    hCur,       \* SpecHash: the callable as parsed from the edited source
    hKinds,     \* SpecHash: the kinds of the edits made since the snapshot
    hCount,     \* SpecHash: the number of edits made since the snapshot
    xOutline,   \* SpecExtract: the definitions of one file, in source order
    xPos,       \* SpecExtract: the next traversal event of the visitor
    xFunctions, \* SpecExtract: FunctionCollector.functions
    xClassStack,    \* SpecExtract: FunctionCollector._class_stack
    xFunctionStack, \* SpecExtract: FunctionCollector._function_stack
    dbScans,    \* the committed rows of table scans, in insertion order
    dbNodes,    \* the committed rows of table nodes, in rowid order
    dbEdges,    \* the committed rows of table edges, in rowid order
    wOp,        \* SpecStore: save_nodes is "idle", "open", "committed" or "failed"
    wNodes,     \* SpecStore: the list of nodes handed to save_nodes
    wScanId,    \* SpecStore: the scan_id handed to save_nodes
    wIdx,       \* SpecStore: the next node save_nodes inserts
    wWork,      \* SpecStore: table nodes as the writing connection sees it
    wBefore,    \* SpecStore: table nodes when save_nodes was called
    rOp,        \* SpecStore: load_snapshots is "idle", "reading" or "done"
    rIdx,       \* SpecStore: the next row the cursor of load_snapshots yields
    rSnapshots, \* SpecStore: the dictionary load_snapshots builds
    rOverlap,   \* SpecStore: load_snapshots ran while save_nodes had inserted rows
    rAfter,     \* SpecStore: load_snapshots began after save_nodes committed
    srcNodes,   \* SpecScan: the CodeNodes a build of the source tree yields now
    sPc,        \* SpecScan: the scan command is "idle", "running", "done", "failed"
    sStep,      \* SpecScan: the store operations the scan command has committed
    sResult,    \* SpecScan: the ScanResult the scan command built
    sScanId,    \* SpecScan: the scan_id record_scan returned to it
    sBefore,    \* SpecScan: the three tables when the scan command started
    sSaved,     \* SpecScan: the nodes of the last committed save_nodes
    sCount,     \* SpecScan: the scan commands started
    tReport,    \* SpecScan: the report of the status command that just ran
    tNodes,     \* SpecScan: the nodes that status command built
    tSnapshots, \* SpecScan: the snapshots that status command loaded
    oPc,        \* SpecOps: the operation is "idle", "open", "returned", "raised"
    oOp,        \* SpecOps: the name of the operation called last
    oArg,       \* SpecOps: its argument
    oIdx,       \* SpecOps: the statements it has executed
    oWork,      \* SpecOps: the three tables as its connection sees them
    oBefore,    \* SpecOps: the three tables when it was called
    oOut,       \* SpecOps: the value it returned
    oClock,     \* SpecOps: the wall clock, as datetime.utcnow() reads it
    oCalls,     \* SpecOps: the operations called so far
    pNodes,     \* SpecReport: the list of nodes handed to analyze_codebase_drift
    pSnapshots, \* SpecReport: the snapshot map handed to it
    pReport,    \* SpecReport: None, or the DriftReport it returned
    gAttrs,     \* SpecGraph: _graph.nodes, node id -> its code_node attribute
    gEdges,     \* SpecGraph: _graph.edges, (caller, callee) -> call_line
    gFileIndex, \* SpecGraph: _file_index, file path -> set of node ids
    gOut,       \* SpecGraph: None, or the query answered last and its answer
    gCalls,     \* SpecGraph: the operations that changed the graph so far
    gReplaced,  \* SpecGraph: None, or the edge data the last add_edge overwrote
    gCallLines, \* SpecGraph: the lines the call sites handed to add_edge are on
    bFiles,     \* SpecBuild: the candidate files of the directory, in rglob order
    bIdx,       \* SpecBuild: the files build_graph_from_directory has been through
    bResult,    \* SpecBuild: the ScanResult it is building
    bPc,        \* SpecBuild: scan is "building" or "exited", status "reported"
    bExit,      \* SpecBuild: None, or the exit status of the scan command
    bReport,    \* SpecBuild: None, or the report of the status command
    kOutline,   \* SpecCalls: the definitions and calls of one file, in source order
    kPos,       \* SpecCalls: the next traversal event of the visitor
    kCalls,     \* SpecCalls: CallCollector.calls
    kClassStack,    \* SpecCalls: CallCollector._class_stack
    kFunctionStack, \* SpecCalls: CallCollector._function_stack
    kInFunction     \* SpecCalls: CallCollector._in_function

classVars == <<cNode, cStored, cStatus>>
hashVars == <<hBase, hCur, hKinds, hCount>>
extractVars == <<xOutline, xPos, xFunctions, xClassStack, xFunctionStack>>
dbVars == <<dbScans, dbNodes, dbEdges>>
storeVars == <<wOp, wNodes, wScanId, wIdx, wWork, wBefore, rOp, rIdx, rSnapshots,
               rOverlap, rAfter>>
scanVars == <<srcNodes, sPc, sStep, sResult, sScanId, sBefore, sSaved, sCount,
              tReport, tNodes, tSnapshots>>
opsVars == <<oPc, oOp, oArg, oIdx, oWork, oBefore, oOut, oClock, oCalls>>
reportVars == <<pNodes, pSnapshots, pReport>>
graphVars == <<gAttrs, gEdges, gFileIndex, gOut, gCalls, gReplaced, gCallLines>>
buildVars == <<bFiles, bIdx, bResult, bPc, bExit, bReport>>
callVars == <<kOutline, kPos, kCalls, kClassStack, kFunctionStack, kInFunction>>
moreVars == <<opsVars, reportVars, graphVars, buildVars, callVars>>
vars == <<classVars, hashVars, extractVars, dbVars, storeVars, scanVars, moreVars>>

\* The variables of a specification while another specification runs.
ClassifyIdle == cNode = << >> /\ cStored = << >> /\ cStatus = "idle"
HashIdle == hBase = << >> /\ hCur = << >> /\ hKinds = {} /\ hCount = 0
ExtractIdle ==
    /\ xOutline = << >> /\ xPos = 0 /\ xFunctions = << >>
    /\ xClassStack = << >> /\ xFunctionStack = << >>
DbIdle == dbScans = << >> /\ dbNodes = << >> /\ dbEdges = << >>
StoreIdle ==
    /\ wOp = "idle" /\ wNodes = << >> /\ wScanId = << >> /\ wIdx = 0
    /\ wWork = << >> /\ wBefore = << >>
    /\ rOp = "idle" /\ rIdx = 0 /\ rSnapshots = << >>
    /\ rOverlap = FALSE /\ rAfter = FALSE
ScanIdle ==
    /\ srcNodes = << >> /\ sPc = "idle" /\ sStep = 0 /\ sResult = << >>
    /\ sScanId = << >> /\ sBefore = << >> /\ sSaved = << >> /\ sCount = 0
    /\ tReport = << >> /\ tNodes = << >> /\ tSnapshots = << >>

OpsIdle ==
    /\ oPc = "idle" /\ oOp = "none" /\ oArg = << >> /\ oIdx = 0 /\ oWork = << >>
    /\ oBefore = << >> /\ oOut = << >> /\ oClock = 0 /\ oCalls = 0
ReportIdle == pNodes = << >> /\ pSnapshots = << >> /\ pReport = << >>
GraphIdle ==
    /\ gAttrs = << >> /\ gEdges = << >> /\ gFileIndex = << >> /\ gOut = << >>
    /\ gCalls = 0 /\ gReplaced = << >> /\ gCallLines = {}
BuildIdle ==
    /\ bFiles = << >> /\ bIdx = 0 /\ bResult = << >> /\ bPc = "idle" /\ bExit = << >>
    /\ bReport = << >>
CallIdle ==
    /\ kOutline = << >> /\ kPos = 0 /\ kCalls = << >> /\ kClassStack = << >>
    /\ kFunctionStack = << >> /\ kInFunction = FALSE
MoreIdle == OpsIdle /\ ReportIdle /\ GraphIdle /\ BuildIdle /\ CallIdle

----------------------------------------------------------------------------
(* Python values *)

NoneV == << >>
Some(v) == << v >>

sha256_hexdigest(text) == << "sha256", text >>

\* All sequences over S of length at most n.
SeqsUpTo(S, n) == UNION { [1..k -> S] : k \in 0..n }

\* str.strip(): leading and trailing whitespace removed, interior kept.
RECURSIVE lstrip(_)
lstrip(s) == IF s # << >> /\ Head(s) = " " THEN lstrip(Tail(s)) ELSE s

RECURSIVE rstrip(_)
rstrip(s) ==
    IF s # << >> /\ s[Len(s)] = " " THEN rstrip(SubSeq(s, 1, Len(s) - 1)) ELSE s

strip(s) == rstrip(lstrip(s))

----------------------------------------------------------------------------
(* engine/models.py *)

FRESH == "fresh"
STALE == "stale"
UNDOCUMENTED == "undocumented"
DriftStatus == {FRESH, STALE, UNDOCUMENTED}

\* CodeNode.has_docstring
has_docstring(node) ==
    node.docstring # NoneV /\ Len(strip(node.docstring[1])) > 0

----------------------------------------------------------------------------
(* engine/drift/detector.py *)

\* The classifier with rules 1 and 2 exchanged.
detect_node_drift_snapshot_first(node, stored) ==
    IF stored = NoneV THEN FRESH
    ELSE IF ~has_docstring(node) THEN UNDOCUMENTED
    ELSE IF node.semantic_hash = stored[1].semantic_hash THEN FRESH
    ELSE IF node.doc_hash # stored[1].doc_hash THEN FRESH
    ELSE STALE

detect_node_drift(node, stored) ==
    IF ~has_docstring(node) THEN UNDOCUMENTED
    ELSE IF stored = NoneV THEN FRESH
    ELSE IF node.semantic_hash = stored[1].semantic_hash THEN FRESH
    ELSE IF node.doc_hash # stored[1].doc_hash THEN FRESH
    ELSE STALE

----------------------------------------------------------------------------
(* The concrete syntax tree libcst builds: the node types the normalizer   *)
(* and the extractor inspect.  Every node is a record with a type field.   *)
(* Whitespace is held where libcst holds it: blank and comment lines above *)
(* a statement in its leading_lines, the rest of a line after the code in  *)
(* a TrailingWhitespace, comment lines that end a block in its footer, and *)
(* the spaces around a binary operator on the operator.                    *)

EmptyLine(indent, comment) ==
    [type |-> "EmptyLine", indent |-> indent, comment |-> comment]
TrailingWhitespace(whitespace, comment) ==
    [type |-> "TrailingWhitespace", whitespace |-> whitespace, comment |-> comment]

\* cst.TrailingWhitespace(): no spaces, no comment, a newline.
DefaultTrailingWhitespace == TrailingWhitespace(0, NoneV)

\* The text of a name, a number or a string is a sequence of tokens.
Name(value) == [type |-> "Name", value |-> << value >>]
Integer(value) == [type |-> "Integer", value |-> << value >>]
SimpleString(value) == [type |-> "SimpleString", value |-> value]
BinaryOperation(left, op, wsBefore, wsAfter, right) ==
    [type |-> "BinaryOperation", left |-> left, right |-> right,
     operator |-> [type |-> op, whitespace_before |-> wsBefore,
                   whitespace_after |-> wsAfter]]

Expr(value) == [type |-> "Expr", value |-> value]
Pass == [type |-> "Pass"]
Return(value) == [type |-> "Return", value |-> value]

SimpleStatementLine(leading, body, trailing) ==
    [type |-> "SimpleStatementLine", leading_lines |-> leading, body |-> body,
     trailing_whitespace |-> trailing]
IndentedBlock(header, body, footer) ==
    [type |-> "IndentedBlock", header |-> header, body |-> body, footer |-> footer]
SimpleStatementSuite(body, trailing) ==
    [type |-> "SimpleStatementSuite", body |-> body, trailing_whitespace |-> trailing]
Else(leading, body) == [type |-> "Else", leading_lines |-> leading, body |-> body]
If(leading, test, body, orelse) ==
    [type |-> "If", leading_lines |-> leading, test |-> test, body |-> body,
     orelse |-> orelse]
ExceptHandler(leading, body) ==
    [type |-> "ExceptHandler", leading_lines |-> leading, body |-> body]
Finally(leading, body) ==
    [type |-> "Finally", leading_lines |-> leading, body |-> body]
Try(leading, body, handlers, finalbody) ==
    [type |-> "Try", leading_lines |-> leading, body |-> body,
     handlers |-> handlers, finalbody |-> finalbody]
Decorator(leading, decorator, trailing) ==
    [type |-> "Decorator", leading_lines |-> leading, decorator |-> decorator,
     trailing_whitespace |-> trailing]
FunctionDef(leading, decorators, afterDecorators, name, params, body) ==
    [type |-> "FunctionDef", leading_lines |-> leading, decorators |-> decorators,
     lines_after_decorators |-> afterDecorators, name |-> name, params |-> params,
     body |-> body]
ClassDef(leading, afterDecorators, name, body) ==
    [type |-> "ClassDef", leading_lines |-> leading,
     lines_after_decorators |-> afterDecorators, name |-> name, body |-> body]
Module(header, body) == [type |-> "Module", header |-> header, body |-> body]

\* The child nodes libcst visits before it calls the transformer's leave_
\* method on a node, replaced by what the transformer returned for them.
RECURSIVE visit(_, _)

visit_children(transformer, node) ==
    LET all(seq) == [i \in DOMAIN seq |-> visit(transformer, seq[i])]
        one(child) == visit(transformer, child)
        opt(child) == IF child = NoneV THEN NoneV ELSE Some(one(child[1]))
        t == node.type
    IN  IF t = "Module"
            THEN [node EXCEPT !.header = all(@), !.body = all(@)]
        ELSE IF t = "SimpleStatementLine"
            THEN [node EXCEPT !.leading_lines = all(@),
                              !.trailing_whitespace = one(@)]
        ELSE IF t = "IndentedBlock"
            THEN [node EXCEPT !.header = one(@), !.body = all(@), !.footer = all(@)]
        ELSE IF t = "SimpleStatementSuite"
            THEN [node EXCEPT !.trailing_whitespace = one(@)]
        ELSE IF t \in {"Else", "ExceptHandler", "Finally"}
            THEN [node EXCEPT !.leading_lines = all(@), !.body = one(@)]
        ELSE IF t = "If"
            THEN [node EXCEPT !.leading_lines = all(@), !.body = one(@),
                              !.orelse = opt(@)]
        ELSE IF t = "Try"
            THEN [node EXCEPT !.leading_lines = all(@), !.body = one(@),
                              !.handlers = all(@), !.finalbody = opt(@)]
        ELSE IF t = "Decorator"
            THEN [node EXCEPT !.leading_lines = all(@),
                              !.trailing_whitespace = one(@)]
        ELSE IF t = "FunctionDef"
            THEN [node EXCEPT !.leading_lines = all(@), !.decorators = all(@),
                              !.lines_after_decorators = all(@), !.body = one(@)]
        ELSE IF t = "ClassDef"
            THEN [node EXCEPT !.leading_lines = all(@),
                              !.lines_after_decorators = all(@), !.body = one(@)]
        ELSE node

----------------------------------------------------------------------------
(* engine/hash/semantic_hash.py: the three transformers *)

\* DocstringRemover._is_docstring_statement without the test that the line
\* holds a single statement.
is_docstring_statement_any_length(stmt) ==
    /\ stmt.type = "SimpleStatementLine"
    /\ Len(stmt.body) >= 1
    /\ stmt.body[1].type = "Expr"
    /\ stmt.body[1].value.type \in {"SimpleString", "ConcatenatedString"}

\* DocstringRemover._is_docstring_statement that accepts every statement.
is_docstring_statement_always(stmt) == TRUE

_is_docstring_statement(stmt) ==
    /\ stmt.type = "SimpleStatementLine"
    /\ Len(stmt.body) = 1
    /\ stmt.body[1].type = "Expr"
    /\ stmt.body[1].value.type \in {"SimpleString", "ConcatenatedString"}

\* The body of leave_FunctionDef and of leave_ClassDef: the same code.
remove_docstring(updated_node) ==
    LET body == updated_node.body
        statements == body.body
        new_statements ==
            IF Tail(statements) = << >>
            THEN << SimpleStatementLine(<< >>, << Pass >>, DefaultTrailingWhitespace) >>
            ELSE Tail(statements)
    IN  IF body.type # "IndentedBlock" THEN updated_node
        ELSE IF statements = << >> THEN updated_node
        ELSE IF _is_docstring_statement(Head(statements))
            THEN [updated_node EXCEPT !.body.body = new_statements]
        ELSE updated_node

DocstringRemover_leave_FunctionDef(updated_node) == remove_docstring(updated_node)
DocstringRemover_leave_ClassDef(updated_node) == remove_docstring(updated_node)

CommentRemover_leave_EmptyLine(updated_node) ==
    IF updated_node.comment # NoneV
    THEN [updated_node EXCEPT !.comment = NoneV]
    ELSE updated_node

CommentRemover_leave_TrailingWhitespace(updated_node) ==
    IF updated_node.comment # NoneV
    THEN [updated_node EXCEPT !.comment = NoneV]
    ELSE updated_node

WhitespaceNormalizer_leave_IndentedBlock(updated_node) ==
    [updated_node EXCEPT !.header = DefaultTrailingWhitespace]

WhitespaceNormalizer_leave_SimpleStatementLine(updated_node) ==
    [updated_node EXCEPT !.leading_lines = << >>,
                         !.trailing_whitespace = DefaultTrailingWhitespace]

\* leave_FunctionDef and leave_ClassDef
WhitespaceNormalizer_leave_definition(updated_node) ==
    [updated_node EXCEPT !.leading_lines = << >>,
                         !.lines_after_decorators = << >>]

\* leave_If, leave_For, leave_While, leave_Try, leave_With
WhitespaceNormalizer_leave_compound(updated_node) ==
    [updated_node EXCEPT !.leading_lines = << >>]

\* libcst's dispatch: the transformer's leave_<type> method if it has one.
on_leave(transformer, updated_node) ==
    LET t == updated_node.type
    IN  IF transformer = "DocstringRemover" /\ t = "FunctionDef"
            THEN DocstringRemover_leave_FunctionDef(updated_node)
        ELSE IF transformer = "DocstringRemover" /\ t = "ClassDef"
            THEN DocstringRemover_leave_ClassDef(updated_node)
        ELSE IF transformer = "CommentRemover" /\ t = "EmptyLine"
            THEN CommentRemover_leave_EmptyLine(updated_node)
        ELSE IF transformer = "CommentRemover" /\ t = "TrailingWhitespace"
            THEN CommentRemover_leave_TrailingWhitespace(updated_node)
        ELSE IF transformer = "WhitespaceNormalizer" /\ t = "IndentedBlock"
            THEN WhitespaceNormalizer_leave_IndentedBlock(updated_node)
        ELSE IF transformer = "WhitespaceNormalizer" /\ t = "SimpleStatementLine"
            THEN WhitespaceNormalizer_leave_SimpleStatementLine(updated_node)
        ELSE IF transformer = "WhitespaceNormalizer" /\ t \in {"FunctionDef", "ClassDef"}
            THEN WhitespaceNormalizer_leave_definition(updated_node)
        ELSE IF transformer = "WhitespaceNormalizer" /\ t \in {"If", "Try"}
            THEN WhitespaceNormalizer_leave_compound(updated_node)
        ELSE updated_node

visit(transformer, node) == on_leave(transformer, visit_children(transformer, node))

----------------------------------------------------------------------------
(* libcst's printer (Module.code).  The text is a sequence of tokens: one  *)
(* "    " per indentation level, one " " per space, "\n", and the tokens   *)
(* of the code.                                                            *)

Indentation(level) == [i \in 1..level |-> "    "]
Spaces(n) == [i \in 1..n |-> " "]
CommentTokens(comment) == IF comment = NoneV THEN << >> ELSE << comment[1] >>

RECURSIVE expression_code(_)
expression_code(e) ==
    IF e.type = "BinaryOperation"
    THEN expression_code(e.left) \o Spaces(e.operator.whitespace_before)
         \o << e.operator.type >> \o Spaces(e.operator.whitespace_after)
         \o expression_code(e.right)
    ELSE e.value

small_statement_code(s) ==
    IF s.type = "Pass" THEN << "pass" >>
    ELSE IF s.type = "Return" THEN << "return", " " >> \o expression_code(s.value)
    ELSE expression_code(s.value)

RECURSIVE small_statements_code(_)
small_statements_code(body) ==
    IF body = << >> THEN << >>
    ELSE IF Len(body) = 1 THEN small_statement_code(body[1])
    ELSE small_statement_code(body[1]) \o << ";", " " >>
         \o small_statements_code(Tail(body))

RECURSIVE codegen(_, _)

RECURSIVE codegen_all(_, _)
codegen_all(nodes, level) ==
    IF nodes = << >> THEN << >>
    ELSE codegen(Head(nodes), level) \o codegen_all(Tail(nodes), level)

codegen(node, level) ==
    LET t == node.type
        lead == IF t \in {"EmptyLine", "TrailingWhitespace", "IndentedBlock",
                          "SimpleStatementSuite", "Module"}
                THEN << >>
                ELSE codegen_all(node.leading_lines, level) 
        opt(child) == IF child = NoneV THEN << >> ELSE codegen(child[1], level)
    IN  IF t = "EmptyLine"
            THEN (IF node.indent THEN Indentation(level) ELSE << >>)
                 \o CommentTokens(node.comment) \o << "\n" >>
        ELSE IF t = "TrailingWhitespace"
            THEN Spaces(node.whitespace) \o CommentTokens(node.comment) \o << "\n" >>
        ELSE IF t = "Module"
            THEN codegen_all(node.header, 0) \o codegen_all(node.body, 0)
        ELSE IF t = "SimpleStatementLine"
            THEN lead \o Indentation(level) \o small_statements_code(node.body)
                 \o codegen(node.trailing_whitespace, level)
        ELSE IF t = "IndentedBlock"
            THEN codegen(node.header, level) \o codegen_all(node.body, level + 1)
                 \o codegen_all(node.footer, level + 1)
        ELSE IF t = "SimpleStatementSuite"
            THEN << " " >> \o small_statements_code(node.body)
                 \o codegen(node.trailing_whitespace, level)
        ELSE IF t = "Else"
            THEN lead \o Indentation(level) \o << "else", ":" >>
                 \o codegen(node.body, level)
        ELSE IF t = "ExceptHandler"
            THEN lead \o Indentation(level) \o << "except", ":" >>
                 \o codegen(node.body, level)
        ELSE IF t = "Finally"
            THEN lead \o Indentation(level) \o << "finally", ":" >>
                 \o codegen(node.body, level)
        ELSE IF t = "If"
            THEN lead \o Indentation(level) \o << "if", " " >>
                 \o expression_code(node.test) \o << ":" >>
                 \o codegen(node.body, level) \o opt(node.orelse)
        ELSE IF t = "Try"
            THEN lead \o Indentation(level) \o << "try", ":" >>
                 \o codegen(node.body, level) \o codegen_all(node.handlers, level)
                 \o opt(node.finalbody)
        ELSE IF t = "Decorator"
            THEN lead \o Indentation(level) \o << "@", node.decorator >>
                 \o codegen(node.trailing_whitespace, level)
        ELSE IF t = "FunctionDef"
            THEN lead \o codegen_all(node.decorators, level)
                 \o codegen_all(node.lines_after_decorators, level)
                 \o Indentation(level)
                 \o << "def", " ", node.name, "(", node.params, ")", ":" >>
                 \o codegen(node.body, level)
        ELSE \* ClassDef
            lead \o codegen_all(node.lines_after_decorators, level)
            \o Indentation(level) \o << "class", " ", node.name, ":" >>
            \o codegen(node.body, level)

\* Module.code
code(module) == codegen(module, 0)

\* cst.parse_module applied to the text cst.Module(body=[node]).code of one
\* definition: the parser gives the lines above the first statement of a
\* file to Module.header, and every other line to the node that held it.
parse_module_of_definition(node) ==
    Module(node.leading_lines, << [node EXCEPT !.leading_lines = << >>] >>)

\* normalize_function_code that skips the WhitespaceNormalizer pass.
normalize_without_whitespace_pass(module) ==
    code(visit("CommentRemover", visit("DocstringRemover", module)))

\* normalize_function_code, from the parsed module on.
normalize_module(module) ==
    code(visit("WhitespaceNormalizer",
               visit("CommentRemover", visit("DocstringRemover", module))))

\* normalize_function_code(source) for the source text FunctionCollector
\* stores for a function: cst.Module(body=[node]).code
normalize_function_code(node) == normalize_module(parse_module_of_definition(node))

compute_semantic_hash(node) == sha256_hexdigest(normalize_function_code(node))

----------------------------------------------------------------------------
(* engine/parser/extractor.py: the docstring of a function definition, and *)
(* engine/graph/builder.py: the CodeNode built from it                     *)

QuoteChar == "\""

\* FunctionCollector._extract_string_value, for a SimpleString
_extract_string_value(node) ==
    LET value == node.value
        n == Len(value)
    IN  IF node.type # "SimpleString" THEN << >>
        ELSE IF n >= 3 /\ SubSeq(value, 1, 3) = << QuoteChar, QuoteChar, QuoteChar >>
            THEN SubSeq(value, 4, n - 3)
        ELSE IF n >= 1 /\ value[1] = QuoteChar
            THEN SubSeq(value, 2, n - 1)
        ELSE value

\* FunctionCollector._extract_docstring
_extract_docstring(node) ==
    LET body == node.body
        first_stmt == body.body[1]
        first_expr == first_stmt.body[1]
    IN  IF body.type # "IndentedBlock" THEN NoneV
        ELSE IF body.body = << >> THEN NoneV
        ELSE IF first_stmt.type # "SimpleStatementLine" THEN NoneV
        ELSE IF first_stmt.body = << >> THEN NoneV
        ELSE IF first_expr.type # "Expr" THEN NoneV
        ELSE IF first_expr.value.type \in {"SimpleString", "ConcatenatedString"}
            THEN Some(_extract_string_value(first_expr.value))
        ELSE NoneV

\* compute_doc_hash
compute_doc_hash(docstring) == sha256_hexdigest(strip(docstring))

\* The hashes build_graph_from_directory gives the CodeNode of a function
\* (`if func.docstring` is false for None and for the empty string).
CodeNodeOf(func) ==
    LET docstring == _extract_docstring(func)
    IN  [docstring |-> docstring,
         semantic_hash |-> compute_semantic_hash(func),
         doc_hash |-> IF docstring = NoneV \/ docstring[1] = << >>
                      THEN NoneV
                      ELSE Some(compute_doc_hash(docstring[1]))]

\* NodeSnapshot.from_node, as far as the classifier reads it
SnapshotOf(node) ==
    [semantic_hash |-> node.semantic_hash, doc_hash |-> node.doc_hash]

----------------------------------------------------------------------------
(* Edits of the source text of one callable, given by the tree libcst      *)
(* parses from the edited text.  An edit is of one kind: "whitespace" (a   *)
(* blank line inserted or removed, spaces changed inside a line),          *)
(* "comment" (a comment line or a trailing comment inserted, modified or   *)
(* removed), "docstring" (the docstring of a function or class of the      *)
(* subtree replaced, removed or added) or "logic" (an identifier, literal, *)
(* operator, the order of two statements, the signature or a decorator     *)
(* changed, in the callable or in a definition nested in it).              *)

MaxLines == 1       \* blank and comment lines held by one node
MaxSpaces == 1      \* spaces around an operator or at the end of a line
MaxEdits == 2       \* edits applied to the callable

Comments == {"# c", "# d"}
Names == {"a", "b"}
Integers == {"1", "2"}
Operators == {"+", "*"}
DecoratorNames == {"p", "q"}
Signatures == {"", "x"}
DocTexts == {<<"d">>, <<"e">>}
DocLiteral(text) ==
    << QuoteChar, QuoteChar, QuoteChar >> \o text
    \o << QuoteChar, QuoteChar, QuoteChar >>

InsertAt(seq, i, v) == SubSeq(seq, 1, i - 1) \o << v >> \o SubSeq(seq, i, Len(seq))
RemoveAt(seq, i) == SubSeq(seq, 1, i - 1) \o SubSeq(seq, i + 1, Len(seq))

\* The tokens of a text that are code: no spaces, newlines or comments.
RECURSIVE CodeTokens(_)
CodeTokens(text) ==
    IF text = << >> THEN << >>
    ELSE IF Head(text) \in {" ", "    ", "\n"} \cup Comments
        THEN CodeTokens(Tail(text))
    ELSE << Head(text) >> \o CodeTokens(Tail(text))

\* A list of blank and comment lines (leading_lines, a footer) edited.
LineEdits(kind, lines) ==
    IF kind = "whitespace" THEN
        { InsertAt(lines, i, EmptyLine(FALSE, NoneV)) :
            i \in IF Len(lines) < MaxLines THEN 1..(Len(lines) + 1) ELSE {} }
        \cup { RemoveAt(lines, i) : i \in { j \in DOMAIN lines : lines[j].comment = NoneV } }
    ELSE IF kind = "comment" THEN
        { InsertAt(lines, p[1], EmptyLine(TRUE, Some(p[2]))) :
            p \in (IF Len(lines) < MaxLines THEN 1..(Len(lines) + 1) ELSE {}) \X Comments }
        \cup { RemoveAt(lines, i) : i \in { j \in DOMAIN lines : lines[j].comment # NoneV } }
        \cup { [lines EXCEPT ![p[1]].comment = Some(p[2])] :
                p \in { q \in (DOMAIN lines) \X Comments :
                          /\ lines[q[1]].comment # NoneV
                          /\ lines[q[1]].comment # Some(q[2]) } }
    ELSE {}

\* The rest of a line after the code edited: its spaces, or its comment.
TrailingEdits(kind, tw) ==
    IF kind = "whitespace" THEN
        { [tw EXCEPT !.whitespace = n] : n \in (0..MaxSpaces) \ {tw.whitespace} }
    ELSE IF kind = "comment" THEN
        { [tw EXCEPT !.comment = c] :
            c \in ({NoneV} \cup { Some(x) : x \in Comments }) \ {tw.comment} }
    ELSE {}

RECURSIVE ExpressionEdits(_, _)
ExpressionEdits(kind, e) ==
    IF e.type = "BinaryOperation" THEN
        { [e EXCEPT !.left = v] : v \in ExpressionEdits(kind, e.left) }
        \cup { [e EXCEPT !.right = v] : v \in ExpressionEdits(kind, e.right) }
        \cup (IF kind = "whitespace" THEN
                { [e EXCEPT !.operator.whitespace_before = n] :
                    n \in (0..MaxSpaces) \ {e.operator.whitespace_before} }
                \cup { [e EXCEPT !.operator.whitespace_after = n] :
                    n \in (0..MaxSpaces) \ {e.operator.whitespace_after} }
              ELSE IF kind = "logic" THEN
                { [e EXCEPT !.operator.type = o] : o \in Operators \ {e.operator.type} }
              ELSE {})
    ELSE IF kind = "logic" /\ e.type = "Name" THEN
        { [e EXCEPT !.value = << v >>] : v \in Names \ {e.value[1]} }
    ELSE IF kind = "logic" /\ e.type = "Integer" THEN
        { [e EXCEPT !.value = << v >>] : v \in Integers \ {e.value[1]} }
    ELSE {}

SmallStatementEdits(kind, s) ==
    IF s.type \in {"Return", "Expr"}
    THEN { [s EXCEPT !.value = v] : v \in ExpressionEdits(kind, s.value) }
    ELSE {}

\* Whether a small statement is a bare string literal.
IsStringExpr(s) == s.type = "Expr" /\ s.value.type = "SimpleString"

\* The docstring of a function or class replaced, removed or added.
DocstringEdits(node) ==
    LET body == node.body
        smalls == IF body.type = "IndentedBlock" THEN body.body[1].body ELSE body.body
        simple == body.type = "SimpleStatementSuite"
                  \/ body.body[1].type = "SimpleStatementLine"
        withSmalls(new) ==
            IF body.type = "IndentedBlock"
            THEN [node EXCEPT !.body.body[1].body = new]
            ELSE [node EXCEPT !.body.body = new]
        newDoc(text) == Expr(SimpleString(DocLiteral(text)))
    IN  IF simple /\ IsStringExpr(smalls[1]) THEN
            \* replaced by another text
            { withSmalls([smalls EXCEPT ![1] = newDoc(t)]) :
                t \in { u \in DocTexts : newDoc(u) # smalls[1] } }
            \* removed: from its line, or with its line, or leaving `pass`
            \cup { IF Len(smalls) > 1 THEN withSmalls(Tail(smalls))
                   ELSE IF body.type = "IndentedBlock" /\ Len(body.body) > 1
                       THEN [node EXCEPT !.body.body = Tail(@)]
                   ELSE withSmalls(<< Pass >>) }
        ELSE
            \* added: in place of a lone `pass`, or as a new first line
            { IF simple /\ smalls = << Pass >> /\ (body.type = "IndentedBlock" => Len(body.body) = 1)
                  THEN withSmalls(<< newDoc(t) >>)
              ELSE IF body.type = "IndentedBlock"
                  THEN [node EXCEPT !.body.body =
                          << SimpleStatementLine(<< >>, << newDoc(t) >>,
                                                 DefaultTrailingWhitespace) >> \o @]
              ELSE withSmalls(<< newDoc(t) >> \o smalls) : t \in DocTexts }

\* A decorator line added directly above `def`, or the only one removed.
DecoratorEdits(node) ==
    IF node.decorators = << >>
    THEN { [node EXCEPT !.decorators =
              << Decorator(<< >>, d, DefaultTrailingWhitespace) >>] : d \in DecoratorNames }
    ELSE IF /\ Len(node.decorators) = 1
            /\ node.decorators[1].leading_lines = << >>
            /\ node.lines_after_decorators = << >>
        THEN { [node EXCEPT !.decorators = << >>] }
    ELSE {}

\* Every tree that one edit of the given kind makes of a node.
RECURSIVE Edits(_, _)
Edits(kind, node) ==
    LET t == node.type
        inSeq(field) ==
            { [node EXCEPT ![field][p[1]] = p[2]] :
                p \in UNION { {i} \X Edits(kind, node[field][i]) : i \in DOMAIN node[field] } }
        inOne(field) == { [node EXCEPT ![field] = v] : v \in Edits(kind, node[field]) }
        inOpt(field) ==
            IF node[field] = NoneV THEN {}
            ELSE { [node EXCEPT ![field] = Some(v)] : v \in Edits(kind, node[field][1]) }
        lines(field) == { [node EXCEPT ![field] = v] : v \in LineEdits(kind, node[field]) }
        trailing(field) ==
            { [node EXCEPT ![field] = v] : v \in TrailingEdits(kind, node[field]) }
        smalls ==
            { [node EXCEPT !.body[p[1]] = p[2]] :
                p \in UNION { {i} \X SmallStatementEdits(kind, node.body[i]) :
                                i \in DOMAIN node.body } }
        swaps ==
            IF kind # "logic" THEN {}
            ELSE { [node EXCEPT !.body[i] = node.body[i + 1], !.body[i + 1] = node.body[i]] :
                     i \in { j \in 1..(Len(node.body) - 1) :
                               CodeTokens(codegen(node.body[j], 0))
                               # CodeTokens(codegen(node.body[j + 1], 0)) } }
        docstring == IF kind = "docstring" THEN DocstringEdits(node) ELSE {}
    IN  IF t = "SimpleStatementLine"
            THEN lines("leading_lines") \cup smalls \cup trailing("trailing_whitespace")
        ELSE IF t = "IndentedBlock"
            THEN trailing("header") \cup inSeq("body") \cup swaps
                 \cup (IF kind = "comment" THEN lines("footer") ELSE {})
        ELSE IF t = "SimpleStatementSuite"
            THEN smalls \cup trailing("trailing_whitespace")
        ELSE IF t \in {"Else", "ExceptHandler", "Finally"}
            THEN lines("leading_lines") \cup inOne("body")
        ELSE IF t = "If"
            THEN lines("leading_lines") \cup inOne("body") \cup inOpt("orelse")
                 \cup { [node EXCEPT !.test = v] : v \in ExpressionEdits(kind, node.test) }
        ELSE IF t = "Try"
            THEN lines("leading_lines") \cup inOne("body") \cup inSeq("handlers")
                 \cup inOpt("finalbody")
        ELSE IF t = "Decorator"
            THEN lines("leading_lines") \cup trailing("trailing_whitespace")
                 \cup (IF kind = "logic"
                       THEN { [node EXCEPT !.decorator = d] :
                                d \in DecoratorNames \ {node.decorator} }
                       ELSE {})
        ELSE IF t = "FunctionDef"
            THEN lines("leading_lines") \cup inSeq("decorators") \cup inOne("body")
                 \cup (IF node.decorators # << >> THEN lines("lines_after_decorators") ELSE {})
                 \cup docstring
                 \cup (IF kind = "logic"
                       THEN { [node EXCEPT !.params = v] : v \in Signatures \ {node.params} }
                            \cup DecoratorEdits(node)
                       ELSE {})
        ELSE IF t = "ClassDef"
            THEN lines("leading_lines") \cup inOne("body") \cup docstring
        ELSE {}

----------------------------------------------------------------------------
(* SpecHash: a callable is snapshotted, its source is edited, and both     *)
(* versions are fingerprinted as build_graph_from_directory does.          *)

StatementLine(small) == SimpleStatementLine(<< >>, << small >>, DefaultTrailingWhitespace)
Block(statements) == IndentedBlock(DefaultTrailingWhitespace, statements, << >>)
DocLine == StatementLine(Expr(SimpleString(DocLiteral(<<"d">>))))
Def(name, body) == FunctionDef(<< >>, << >>, << >>, name, "", body)

\* def f():\n    """d"""\n    return a+b\n
SourceAdd ==
    Def("f", Block(<< DocLine,
        StatementLine(Return(BinaryOperation(Name("a"), "+", 0, 0, Name("b")))) >>))
\* def f():\n    """d"""\n    if a:\n        return 1\n    else:\n        return 2\n
SourceIf ==
    Def("f", Block(<< DocLine,
        If(<< >>, Name("a"), Block(<< StatementLine(Return(Integer("1"))) >>),
           Some(Else(<< >>, Block(<< StatementLine(Return(Integer("2"))) >>)))) >>))
\* def f():\n    try:\n        a\n    except:\n        b\n    finally:\n        pass\n
SourceTry ==
    Def("f", Block(<<
        Try(<< >>, Block(<< StatementLine(Expr(Name("a"))) >>),
            << ExceptHandler(<< >>, Block(<< StatementLine(Expr(Name("b"))) >>)) >>,
            Some(Finally(<< >>, Block(<< StatementLine(Pass) >>)))) >>))
\* @p\ndef f():\n    """d"""\n    a\n    b\n
SourceDecorated ==
    FunctionDef(<< >>, << Decorator(<< >>, "p", DefaultTrailingWhitespace) >>, << >>,
                "f", "",
                Block(<< DocLine, StatementLine(Expr(Name("a"))),
                         StatementLine(Expr(Name("b"))) >>))
\* def f():\n    def g():\n        """d"""\n        return 1\n    return a\n
SourceNestedDef ==
    Def("f", Block(<<
        Def("g", Block(<< DocLine, StatementLine(Return(Integer("1"))) >>)),
        StatementLine(Return(Name("a"))) >>))
\* def f():\n    class K:\n        """d"""\n    return a\n
SourceNestedClass ==
    Def("f", Block(<< ClassDef(<< >>, << >>, "K", Block(<< DocLine >>)),
                      StatementLine(Return(Name("a"))) >>))
\* def f(): """d"""\n
SourceSuite ==
    Def("f", SimpleStatementSuite(<< Expr(SimpleString(DocLiteral(<<"d">>))) >>,
                                  DefaultTrailingWhitespace))
\* def f():\n    """d"""; a\n
SourceSemicolon ==
    Def("f", Block(<< SimpleStatementLine(<< >>,
        << Expr(SimpleString(DocLiteral(<<"d">>))), Expr(Name("a")) >>,
        DefaultTrailingWhitespace) >>))

Sources ==
    {SourceAdd, SourceIf, SourceTry, SourceDecorated, SourceNestedDef,
     SourceNestedClass, SourceSuite, SourceSemicolon}

InitHash ==
    /\ hBase \in Sources
    /\ hCur = hBase
    /\ hKinds = {}
    /\ hCount = 0
    /\ ClassifyIdle /\ ExtractIdle /\ DbIdle /\ StoreIdle /\ ScanIdle /\ MoreIdle

\* One edit of the source of the callable; at most one of them changes logic.
Edit(kind) ==
    /\ hCount < MaxEdits
    /\ kind = "logic" => "logic" \notin hKinds
    /\ hCur' \in Edits(kind, hCur)
    /\ hKinds' = hKinds \cup {kind}
    /\ hCount' = hCount + 1
    /\ UNCHANGED <<hBase, classVars, extractVars, dbVars, storeVars, scanVars, moreVars>>

EditWhitespace == Edit("whitespace")
EditComment == Edit("comment")
EditDocstring == Edit("docstring")
EditLogic == Edit("logic")

NextHash == EditWhitespace \/ EditComment \/ EditDocstring \/ EditLogic

SpecHash == InitHash /\ [][NextHash]_vars

\* The normalized text at the snapshot and now, and the classification of
\* the edited callable against the snapshot of the original one.
BaseText == normalize_function_code(hBase)
CurText == normalize_function_code(hCur)
StatusNow ==
    detect_node_drift(CodeNodeOf(hCur), Some(SnapshotOf(CodeNodeOf(hBase))))

\* C3 as stated: after whitespace edits only, the semantic fingerprint is
\* the one of the snapshot and the callable is classified FRESH.
C3_WhitespaceInvariant ==
    (hKinds = {"whitespace"}) =>
        /\ compute_semantic_hash(hCur) = compute_semantic_hash(hBase)
        /\ StatusNow = FRESH

\* C4 as stated: after comment edits only, the semantic fingerprint is the
\* one of the snapshot.
C4_CommentInvariant ==
    (hKinds = {"comment"}) =>
        compute_semantic_hash(hCur) = compute_semantic_hash(hBase)

\* C5 as stated: after docstring edits only (a docstring replaced, removed
\* to leave the rest of the body or `pass`, or added), the semantic
\* fingerprint is the one of the snapshot.
C5_DocstringInvariant ==
    (hKinds = {"docstring"}) =>
        compute_semantic_hash(hCur) = compute_semantic_hash(hBase)

\* C6: whenever the edits since the snapshot include one change of logic
\* (an identifier, a literal, an operator, the order of two statements, the
\* signature, a decorator, or any of these in a nested definition),
\* whatever whitespace, comment and docstring edits accompany it, the
\* normalized text and hence the semantic fingerprint differ from the
\* snapshot's.
C6_LogicSensitive ==
    ("logic" \in hKinds) =>
        /\ CurText # BaseText
        /\ compute_semantic_hash(hCur) # compute_semantic_hash(hBase)

\* A logic change inside a nested definition, next to a docstring edit,
\* has been made and changed the fingerprint.
C6_Witness ==
    /\ hBase = SourceNestedDef
    /\ hKinds = {"logic", "docstring"}
    /\ hCur.body.body[1].body # hBase.body.body[1].body
    /\ compute_semantic_hash(hCur) # compute_semantic_hash(hBase)

\* DocstringRemover removes the first statement of the body of the function.
RemovesFirstStatement(node) == DocstringRemover_leave_FunctionDef(node) # node

\* C30 as stated: the extractor reports a docstring for a function
\* definition if and only if DocstringRemover removes the first statement
\* of its body, so after edits of nothing but the text the extractor
\* reports as docstring the semantic fingerprint is the one of the snapshot.
C30_SameDocstring ==
    /\ \A node \in {hBase, hCur} :
          (_extract_docstring(node) # NoneV) <=> RemovesFirstStatement(node)
    /\ ( /\ hKinds = {"docstring"}
         /\ _extract_docstring(hBase) # NoneV
         /\ _extract_docstring(hCur) # NoneV ) =>
            compute_semantic_hash(hCur) = compute_semantic_hash(hBase)

----------------------------------------------------------------------------
(* SpecExtract: FunctionCollector visits the definitions of one file.      *)
(* The file is given by its outline: the class and function definitions in *)
(* source order, one per line, each with its nesting depth.                *)

MaxDefs == 3        \* definitions in the file

FunctionNames == {"f", "g"}
ClassNames == {"K"}
ModuleName == "m"
FilePath == "m.py"

OutlineItems(depths) ==
    [depth : depths, kind : {"def"}, name : FunctionNames]
    \cup [depth : depths, kind : {"class"}, name : ClassNames]

\* A definition is nested at most one level deeper than the one before it.
Outlines ==
    { o \in SeqsUpTo(OutlineItems(0..(MaxDefs - 1)), MaxDefs) :
        /\ o # << >> => o[1].depth = 0
        /\ \A i \in 1..(Len(o) - 1) : o[i + 1].depth <= o[i].depth + 1 }

Reverse(seq) == [i \in 1..Len(seq) |-> seq[Len(seq) + 1 - i]]

\* The visit_ and leave_ calls that wrapper.visit(collector) makes, in
\* order: a definition is left once every definition nested in it is.
RECURSIVE Walk(_, _, _)
Walk(outline, i, open) ==
    LET leave(js) == [k \in 1..Len(js) |-> [op |-> "leave", index |-> js[k]]]
        closing == IF i > Len(outline) THEN open
                   ELSE SelectSeq(open, LAMBDA j : outline[j].depth >= outline[i].depth)
        kept == SubSeq(open, 1, Len(open) - Len(closing))
    IN  IF i > Len(outline) THEN leave(Reverse(open))
        ELSE leave(Reverse(closing)) \o << [op |-> "visit", index |-> i] >>
             \o Walk(outline, i + 1, Append(kept, i))

TraversalEvents(outline) == Walk(outline, 1, << >>)

InitExtract ==
    /\ xOutline \in Outlines
    /\ xPos = 1
    /\ xFunctions = << >>
    /\ xClassStack = << >>
    /\ xFunctionStack = << >>
    /\ ClassifyIdle /\ HashIdle /\ DbIdle /\ StoreIdle /\ ScanIdle /\ MoreIdle

\* The next traversal event is `op` on a definition of the given kind.
AtEvent(op, kind) ==
    /\ xPos <= Len(TraversalEvents(xOutline))
    /\ TraversalEvents(xOutline)[xPos].op = op
    /\ xOutline[TraversalEvents(xOutline)[xPos].index].kind = kind

CurrentIndex == TraversalEvents(xOutline)[xPos].index

visit_ClassDef ==
    /\ AtEvent("visit", "class")
    /\ xClassStack' = Append(xClassStack, xOutline[CurrentIndex].name)
    /\ xPos' = xPos + 1
    /\ UNCHANGED <<xOutline, xFunctions, xFunctionStack, classVars, hashVars, dbVars, storeVars, scanVars, moreVars>>

leave_ClassDef ==
    /\ AtEvent("leave", "class")
    /\ xClassStack' = SubSeq(xClassStack, 1, Len(xClassStack) - 1)
    /\ xPos' = xPos + 1
    /\ UNCHANGED <<xOutline, xFunctions, xFunctionStack, classVars, hashVars, dbVars, storeVars, scanVars, moreVars>>

\* The parts that visit_FunctionDef joins with "." (identifiers hold no
\* "." so the parts determine the joined name).
qualified_name(func_name) ==
    << ModuleName >> \o xClassStack \o xFunctionStack \o << func_name >>

visit_FunctionDef ==
    /\ AtEvent("visit", "def")
    /\ LET func_name == xOutline[CurrentIndex].name
           is_method == Len(xClassStack) > 0
       IN  xFunctions' = Append(xFunctions,
               [name |-> func_name,
                qualified_name |-> qualified_name(func_name),
                start_line |-> CurrentIndex,
                is_method |-> is_method,
                class_name |-> IF is_method THEN Some(xClassStack[Len(xClassStack)])
                               ELSE NoneV])
    /\ xFunctionStack' = Append(xFunctionStack, xOutline[CurrentIndex].name)
    /\ xPos' = xPos + 1
    /\ UNCHANGED <<xOutline, xClassStack, classVars, hashVars, dbVars, storeVars, scanVars, moreVars>>

leave_FunctionDef ==
    /\ AtEvent("leave", "def")
    /\ xFunctionStack' = SubSeq(xFunctionStack, 1, Len(xFunctionStack) - 1)
    /\ xPos' = xPos + 1
    /\ UNCHANGED <<xOutline, xFunctions, xClassStack, classVars, hashVars, dbVars, storeVars, scanVars, moreVars>>

NextExtract ==
    visit_ClassDef \/ leave_ClassDef \/ visit_FunctionDef \/ leave_FunctionDef

SpecExtract == InitExtract /\ [][NextExtract]_vars

ExtractDone == xPos > Len(TraversalEvents(xOutline))

\* The id build_graph_from_directory gives the CodeNode of a function.
NodeId(func) == << FilePath, func.qualified_name >>

\* C7 as stated: when the file has been visited, every function definition
\* of it has been emitted exactly once, and no two emitted functions get
\* the same CodeNode id.
C7_UniqueIds ==
    ExtractDone =>
        /\ \A i \in DOMAIN xOutline :
              xOutline[i].kind = "def" =>
                Cardinality({ k \in DOMAIN xFunctions : xFunctions[k].start_line = i }) = 1
        /\ \A k \in DOMAIN xFunctions : xOutline[xFunctions[k].start_line].kind = "def"
        /\ \A j, k \in DOMAIN xFunctions :
              j # k => NodeId(xFunctions[j]) # NodeId(xFunctions[k])

\* The definitions that lexically enclose definition i of the outline,
\* outer to inner: for every smaller depth, the last one before i.
Enclosing(outline, i) ==
    [d \in 1..outline[i].depth |->
        CHOOSE j \in 1..(i - 1) :
            /\ outline[j].depth = d - 1
            /\ \A k \in (j + 1)..(i - 1) : outline[k].depth # d - 1]

NamesOf(outline, indices, kind) ==
    LET kept == SelectSeq(indices, LAMBDA j : outline[j].kind = kind)
    IN  [k \in 1..Len(kept) |-> outline[kept[k]].name]

\* The innermost function definition that encloses definition i, if any.
ParentCallable(outline, i) ==
    LET defs == SelectSeq(Enclosing(outline, i), LAMBDA j : outline[j].kind = "def")
    IN  IF defs = << >> THEN NoneV ELSE Some(defs[Len(defs)])

IsPrefix(s, t) == Len(s) <= Len(t) /\ SubSeq(t, 1, Len(s)) = s

\* C21 as stated: the qualified name of every emitted function is the
\* module name, the names of the classes that enclose it outer to inner,
\* the names of the functions that enclose it outer to inner and its own
\* name; and the qualified name of a nested function has the qualified
\* name of the function it is nested in as prefix.
C21_QualifiedName ==
    \A k \in DOMAIN xFunctions :
        LET i == xFunctions[k].start_line
            parent == ParentCallable(xOutline, i)
        IN  /\ xFunctions[k].qualified_name =
                  << ModuleName >>
                  \o NamesOf(xOutline, Enclosing(xOutline, i), "class")
                  \o NamesOf(xOutline, Enclosing(xOutline, i), "def")
                  \o << xOutline[i].name >>
            /\ parent # NoneV =>
                  \E p \in DOMAIN xFunctions :
                      /\ xFunctions[p].start_line = parent[1]
                      /\ IsPrefix(xFunctions[p].qualified_name,
                                  xFunctions[k].qualified_name)

----------------------------------------------------------------------------
(* engine/storage/database.py: the tables, and what one statement does to  *)
(* them.  A table is the sequence of its rows in rowid order.              *)

\* INSERT ... with a plain conflict: a mutant of INSERT OR REPLACE that
\* keeps the row already stored under the key.
insert_or_ignore(table, row) ==
    IF \E i \in DOMAIN table : table[i].node_id = row.node_id
    THEN table
    ELSE Append(table, row)

\* INSERT OR REPLACE INTO nodes: node_id is the primary key, so a row with
\* the same node_id is deleted before the new row is appended.
insert_or_replace(table, row) ==
    Append(SelectSeq(table, LAMBDA r : r.node_id # row.node_id), row)

\* The row save_nodes writes for a node (the columns the model keeps).
NodeRow(node, scan_id) ==
    [node_id |-> node.id, file_path |-> node.file_path,
     semantic_hash |-> node.semantic_hash, doc_hash |-> node.doc_hash,
     scan_id |-> scan_id]

\* The NodeSnapshot load_snapshots builds from a row.
RowSnapshot(row) ==
    [node_id |-> row.node_id, file_path |-> row.file_path,
     semantic_hash |-> row.semantic_hash, doc_hash |-> row.doc_hash]

\* snapshots[snapshot.node_id] = snapshot
DictPut(dict, key, value) ==
    [k \in DOMAIN dict \cup {key} |-> IF k = key THEN value ELSE dict[k]]

\* Isolation of connections: a connection other than the writing one reads
\* the committed rows; the mutant reads the writer's uncommitted rows.
read_uncommitted(committed, working) == working
visible_to_reader(committed, working) == committed

----------------------------------------------------------------------------
(* SpecStore: one save_nodes call and one load_snapshots call on one       *)
(* database file, each on its own connection, statement by statement.      *)

MaxRecords == 2     \* nodes handed to one save_nodes call

StoreIds == {<<"a.py", "f">>, <<"a.py", "g">>}
StoreSemHashes == {sha256_hexdigest(<<"1">>), sha256_hexdigest(<<"2">>)}
StoreDocHashes == {NoneV, Some(sha256_hexdigest(<<"d">>))}
StoreNodes ==
    { [id |-> i, file_path |-> i[1], semantic_hash |-> h, doc_hash |-> d] :
        i \in StoreIds, h \in StoreSemHashes, d \in StoreDocHashes }
\* str(uuid.uuid4()): the id of the n-th scan recorded, unlike any other.
ScanIdOf(n) == << "scan", n >>
ScanIdArgs == {NoneV, Some(ScanIdOf(1))}

\* What an earlier save_nodes call left in the table: one row per id.
OldRow(i) ==
    [node_id |-> i, file_path |-> i[1],
     semantic_hash |-> sha256_hexdigest(<<"0">>),
     doc_hash |-> Some(sha256_hexdigest(<<"c">>)), scan_id |-> NoneV]
StoredTables ==
    { [k \in DOMAIN ids |-> OldRow(ids[k])] :
        ids \in { q \in SeqsUpTo(StoreIds, Cardinality(StoreIds)) :
                    \A j, k \in DOMAIN q : j # k => q[j] # q[k] } }

InitStore ==
    /\ dbNodes \in StoredTables
    /\ dbScans = << >> /\ dbEdges = << >>
    /\ wOp = "idle" /\ wNodes = << >> /\ wScanId = NoneV /\ wIdx = 0
    /\ wWork = << >> /\ wBefore = dbNodes
    /\ rOp = "idle" /\ rIdx = 0 /\ rSnapshots = << >>
    /\ rOverlap = FALSE /\ rAfter = FALSE
    /\ ClassifyIdle /\ HashIdle /\ ExtractIdle /\ ScanIdle /\ MoreIdle

otherThanStore ==
    <<classVars, hashVars, extractVars, dbScans, dbEdges, scanVars, moreVars>>
readerVars == <<rOp, rIdx, rSnapshots, rOverlap, rAfter>>
writerVars == <<wOp, wNodes, wScanId, wIdx, wWork, wBefore>>

\* save_nodes is called: `with self._connection() as conn` opens a
\* connection, which sees the committed table.
BeginSave ==
    /\ wOp = "idle"
    /\ \E nodes \in SeqsUpTo(StoreNodes, MaxRecords), scan_id \in ScanIdArgs :
          /\ wNodes' = nodes
          /\ wScanId' = scan_id
    /\ wOp' = "open"
    /\ wIdx' = 1
    /\ wWork' = dbNodes
    /\ wBefore' = dbNodes
    /\ UNCHANGED <<dbNodes, readerVars, otherThanStore>>

\* One conn.execute of the loop: the row is written inside the transaction
\* the first INSERT opened, visible to this connection only.
InsertNode ==
    /\ wOp = "open"
    /\ wIdx <= Len(wNodes)
    /\ wWork' = insert_or_replace(wWork, NodeRow(wNodes[wIdx], wScanId))
    /\ wIdx' = wIdx + 1
    /\ UNCHANGED <<dbNodes, wOp, wNodes, wScanId, wBefore, readerVars, otherThanStore>>

\* conn.commit() after the loop: all rows of the call become the committed
\* table at once.  SQLite grants the commit only while no other connection
\* is reading.
CommitSave ==
    /\ wOp = "open"
    /\ wIdx > Len(wNodes)
    /\ rOp # "reading"
    /\ dbNodes' = wWork
    /\ wOp' = "committed"
    /\ UNCHANGED <<wNodes, wScanId, wIdx, wWork, wBefore, readerVars, otherThanStore>>

\* An exception inside the block (a failing statement, a lock that is not
\* granted in time, a cancellation): conn.rollback() drops the rows.
FailSave ==
    /\ wOp = "open"
    /\ wOp' = "failed"
    /\ UNCHANGED <<dbNodes, wNodes, wScanId, wIdx, wWork, wBefore, readerVars,
                   otherThanStore>>

\* The table the cursor of load_snapshots reads.
ReaderTable ==
    visible_to_reader(dbNodes, IF wOp = "open" THEN wWork ELSE dbNodes)
WriterHasInserted == wOp = "open" /\ wIdx > 1

\* load_snapshots is called and executes its SELECT.
BeginLoad ==
    /\ rOp = "idle"
    /\ rOp' = "reading"
    /\ rIdx' = 1
    /\ rSnapshots' = << >>
    /\ rOverlap' = WriterHasInserted
    /\ rAfter' = (wOp = "committed")
    /\ UNCHANGED <<dbNodes, writerVars, otherThanStore>>

\* One turn of `for row in cursor`.
FetchRow ==
    /\ rOp = "reading"
    /\ rIdx <= Len(ReaderTable)
    /\ rSnapshots' = DictPut(rSnapshots, ReaderTable[rIdx].node_id,
                             RowSnapshot(ReaderTable[rIdx]))
    /\ rIdx' = rIdx + 1
    /\ rOverlap' = (rOverlap \/ WriterHasInserted)
    /\ UNCHANGED <<dbNodes, rOp, rAfter, writerVars, otherThanStore>>

\* The cursor is exhausted; the connection is closed and the dictionary
\* returned.
EndLoad ==
    /\ rOp = "reading"
    /\ rIdx > Len(ReaderTable)
    /\ rOp' = "done"
    /\ UNCHANGED <<dbNodes, rIdx, rSnapshots, rOverlap, rAfter, writerVars,
                   otherThanStore>>

NextStore ==
    \/ BeginSave \/ InsertNode \/ CommitSave \/ FailSave
    \/ BeginLoad \/ FetchRow \/ EndLoad

SpecStore == InitStore /\ [][NextStore]_vars

\* The ids of the rows of a table, and of the nodes of a list.
RowIds(table) == { table[i].node_id : i \in DOMAIN table }
ListIds(nodes) == { nodes[i].id : i \in DOMAIN nodes }

\* Whether no later node of the list has the id of node i.
LastWithId(nodes, i) ==
    \A j \in DOMAIN nodes : j > i => nodes[j].id # nodes[i].id

\* The dictionary load_snapshots returned holds the hashes of node r.
RoundTrips(r) ==
    /\ r.id \in DOMAIN rSnapshots
    /\ rSnapshots[r.id].node_id = r.id
    /\ rSnapshots[r.id].semantic_hash = r.semantic_hash
    /\ rSnapshots[r.id].doc_hash = r.doc_hash

\* save_nodes(R) has committed and a load_snapshots call made after it
\* has returned.
SavedThenLoaded == wOp = "committed" /\ rOp = "done" /\ rAfter

\* Saving added no row for an id that was stored: one row per id.
OverwritesInPlace ==
    /\ Len(dbNodes) = Cardinality(RowIds(wBefore) \cup ListIds(wNodes))
    /\ RowIds(dbNodes) = RowIds(wBefore) \cup ListIds(wNodes)

TableSnapshots(table) ==
    [i \in RowIds(table) |->
        RowSnapshot(table[CHOOSE k \in DOMAIN table : table[k].node_id = i])]
SnapshotsAfterSave ==
    [i \in RowIds(wBefore) \cup ListIds(wNodes) |->
        IF i \in ListIds(wNodes)
        THEN RowSnapshot(NodeRow(
                 wNodes[CHOOSE k \in DOMAIN wNodes :
                            wNodes[k].id = i /\ LastWithId(wNodes, k)], wScanId))
        ELSE TableSnapshots(wBefore)[i]]

\* C9: whatever load_snapshots returns next to one save_nodes call is the
\* complete set of snapshots from before the call or the complete set
\* after it, never a set in which only some records of the call are
\* written.
C9_OldOrNew ==
    rOp = "done" =>
        \/ rSnapshots = TableSnapshots(wBefore)
        \/ wOp # "idle" /\ rSnapshots = SnapshotsAfterSave

\* load_snapshots read rows while save_nodes had inserted one of two rows
\* that change the table, and returned.
C9_Witness ==
    /\ rOp = "done"
    /\ rOverlap
    /\ Len(wNodes) = 2
    /\ wNodes[1].id # wNodes[2].id
    /\ Len(wBefore) = 2
    /\ rSnapshots = TableSnapshots(wBefore)

----------------------------------------------------------------------------
(* engine/storage/database.py: whole operations, each one transaction, and *)
(* engine/drift/detector.py: the report over a list of nodes.              *)

\* A save_nodes that drops the rows stored before it.
save_nodes_only(table, nodes, scan_id) ==
    [i \in 1..Len(nodes) |-> NodeRow(nodes[i], scan_id)]

\* save_nodes, committed: the statements of the loop in list order.
RECURSIVE save_nodes(_, _, _)
save_nodes(table, nodes, scan_id) ==
    IF nodes = << >> THEN table
    ELSE save_nodes(insert_or_replace(table, NodeRow(Head(nodes), scan_id)),
                    Tail(nodes), scan_id)

\* save_edges, committed: INSERT OR REPLACE on the key (caller_id, callee_id).
RECURSIVE save_edges(_, _)
save_edges(table, edges) ==
    IF edges = << >> THEN table
    ELSE save_edges(
            Append(SelectSeq(table, LAMBDA r : ~(/\ r.caller_id = Head(edges).caller_id
                                                 /\ r.callee_id = Head(edges).callee_id)),
                   Head(edges)),
            Tail(edges))

\* record_scan, committed: one row INSERTed into scans; timestamp is what
\* datetime.utcnow() read when the operation was called.
record_scan(table, scan_id, timestamp, nodes_found) ==
    Append(table, [scan_id |-> scan_id, timestamp |-> timestamp,
                   nodes_found |-> nodes_found])

\* load_snapshots, complete: the dictionary of the committed rows.
load_snapshots(table) ==
    [i \in { table[k].node_id : k \in DOMAIN table } |->
        RowSnapshot(table[CHOOSE k \in DOMAIN table : table[k].node_id = i])]

\* stored_snapshots.get(node.id)
SnapshotGet(snapshots, id) ==
    IF id \in DOMAIN snapshots THEN Some(snapshots[id]) ELSE NoneV

EmptyReport ==
    [fresh_count |-> 0, stale_count |-> 0, undocumented_count |-> 0,
     stale_nodes |-> << >>, undocumented_nodes |-> << >>, statuses |-> << >>]

\* analyze_codebase_drift: the loop over the nodes in input order; field
\* statuses keeps the value of the local `status` of each turn.
RECURSIVE analyze_from(_, _, _)
analyze_from(nodes, snapshots, report) ==
    IF nodes = << >> THEN report
    ELSE LET node == Head(nodes)
             status == detect_node_drift(node, SnapshotGet(snapshots, node.id))
             counted ==
                IF status = FRESH
                    THEN [report EXCEPT !.fresh_count = @ + 1]
                ELSE IF status = STALE
                    THEN [report EXCEPT !.stale_count = @ + 1,
                                        !.stale_nodes = Append(@, node.id)]
                ELSE [report EXCEPT !.undocumented_count = @ + 1,
                                    !.undocumented_nodes = Append(@, node.id)]
         IN  analyze_from(Tail(nodes), snapshots,
                          [counted EXCEPT !.statuses = Append(@, status)])

\* The mutant goes through the nodes from the last to the first.
analyze_reversed(nodes, snapshots) ==
    analyze_from(Reverse(nodes), snapshots, EmptyReport)

analyze_codebase_drift(nodes, snapshots) == analyze_from(nodes, snapshots, EmptyReport)

\* DriftReport.total_nodes
total_nodes(report) ==
    report.fresh_count + report.stale_count + report.undocumented_count

----------------------------------------------------------------------------
(* SpecScan: the commands scan and status of cli/main.py run on a source   *)
(* tree that is edited between them.  The tree is given by the nodes a     *)
(* build of it yields.                                                     *)

MaxScans == 2       \* scan commands run

\* The CodeNode build_graph_from_directory makes of a function.
SourceNode(id, semantic, docstring) ==
    [id |-> id, file_path |-> id[1],
     semantic_hash |-> sha256_hexdigest(<< semantic >>),
     docstring |-> docstring,
     doc_hash |-> IF docstring = NoneV \/ docstring[1] = << >> THEN NoneV
                  ELSE Some(compute_doc_hash(docstring[1]))]

IdF == <<"a.py", "f">>
IdG == <<"a.py", "g">>
Doc1 == Some(<<"d">>)
Doc2 == Some(<<"e">>)

\* One function; two functions; two definitions that get the same id (a
\* property getter and its setter); an undocumented function and one more.
SourceTrees ==
    { << SourceNode(IdF, "1", Doc1) >>,
      << SourceNode(IdF, "1", Doc1), SourceNode(IdG, "1", Doc2) >>,
      << SourceNode(IdF, "1", Doc1), SourceNode(IdF, "1", Doc2) >>,
      << SourceNode(IdF, "1", NoneV), SourceNode(IdG, "1", Doc1) >> }

\* The call edges of the tree: the first function calls the second.
SourceEdges(nodes) ==
    IF Len(nodes) >= 2
    THEN << [caller_id |-> nodes[1].id, callee_id |-> nodes[2].id, call_line |-> 1] >>
    ELSE << >>

\* The order in which the scan command calls the store; the mutant saves
\* the nodes before it records the scan.
ScanSequenceNodesFirst == << "save_nodes", "record_scan", "save_edges" >>
ScanSequence == << "record_scan", "save_nodes", "save_edges" >>

InitScan ==
    /\ srcNodes \in SourceTrees
    /\ dbScans = << >> /\ dbNodes = << >> /\ dbEdges = << >>
    /\ sPc = "idle" /\ sStep = 0 /\ sResult = << >> /\ sScanId = NoneV
    /\ sBefore = << dbScans, dbNodes, dbEdges >>
    /\ sSaved = << >> /\ sCount = 0
    /\ tReport = NoneV /\ tNodes = << >> /\ tSnapshots = << >>
    /\ ClassifyIdle /\ HashIdle /\ ExtractIdle /\ StoreIdle /\ MoreIdle

otherThanScan == <<classVars, hashVars, extractVars, storeVars, moreVars>>

\* The report of a status command is printed and the process ends.
StatusForgotten == tReport' = NoneV /\ tNodes' = << >> /\ tSnapshots' = << >>

\* The logic of function i is edited (between commands).
EditSourceLogic ==
    /\ sPc # "running"
    /\ \E i \in DOMAIN srcNodes, v \in {"1", "2"} :
          /\ srcNodes[i].semantic_hash # sha256_hexdigest(<< v >>)
          /\ srcNodes' = [srcNodes EXCEPT ![i] = SourceNode(@.id, v, @.docstring)]
    /\ StatusForgotten
    /\ UNCHANGED <<dbVars, sPc, sStep, sResult, sScanId, sBefore, sSaved, sCount,
                   otherThanScan>>

\* The docstring of a documented function i is rewritten.
EditSourceDocstring ==
    /\ sPc # "running"
    /\ \E i \in DOMAIN srcNodes, d \in {Doc1, Doc2} :
          /\ srcNodes[i].docstring \notin {NoneV, d}
          /\ srcNodes' = [srcNodes EXCEPT ![i].docstring = d,
                                          ![i].doc_hash = Some(compute_doc_hash(d[1]))]
    /\ StatusForgotten
    /\ UNCHANGED <<dbVars, sPc, sStep, sResult, sScanId, sBefore, sSaved, sCount,
                   otherThanScan>>

\* scan: build_graph_from_directory(path), before the store is touched.
ScanBuild ==
    /\ sPc # "running"
    /\ sCount < MaxScans
    /\ sPc' = "running"
    /\ sStep' = 0
    /\ sResult' = [nodes |-> srcNodes, edges |-> SourceEdges(srcNodes)]
    /\ sScanId' = NoneV
    /\ sBefore' = << dbScans, dbNodes, dbEdges >>
    /\ sCount' = sCount + 1
    /\ StatusForgotten
    /\ UNCHANGED <<dbVars, srcNodes, sSaved, otherThanScan>>

\* The next call of the scan command on the store is `op`.
ScanAt(op) == sPc = "running" /\ ScanSequence[sStep + 1] = op
ScanAdvance ==
    /\ sStep' = sStep + 1
    /\ sPc' = IF sStep + 1 = Len(ScanSequence) THEN "done" ELSE "running"
    /\ StatusForgotten

\* scan: db.record_scan(...) commits.
ScanRecord ==
    /\ ScanAt("record_scan")
    /\ dbScans' = record_scan(dbScans, ScanIdOf(sCount), sCount, Len(sResult.nodes))
    /\ sScanId' = Some(ScanIdOf(sCount))
    /\ ScanAdvance
    /\ UNCHANGED <<dbNodes, dbEdges, srcNodes, sResult, sBefore, sSaved, sCount,
                   otherThanScan>>

\* scan: db.save_nodes(result.nodes, scan_id=scan_id) commits.
ScanSaveNodes ==
    /\ ScanAt("save_nodes")
    /\ dbNodes' = save_nodes(dbNodes, sResult.nodes, sScanId)
    /\ sSaved' = sResult.nodes
    /\ ScanAdvance
    /\ UNCHANGED <<dbScans, dbEdges, srcNodes, sResult, sScanId, sBefore, sCount,
                   otherThanScan>>

\* scan: db.save_edges(result.edges) commits.
ScanSaveEdges ==
    /\ ScanAt("save_edges")
    /\ dbEdges' = save_edges(dbEdges, sResult.edges)
    /\ ScanAdvance
    /\ UNCHANGED <<dbScans, dbNodes, srcNodes, sResult, sScanId, sBefore, sSaved,
                   sCount, otherThanScan>>

\* scan is cancelled, or the store raises: the transaction of the call in
\* progress is rolled back, the transactions committed before it stay.
ScanFail ==
    /\ sPc = "running"
    /\ sPc' = "failed"
    /\ StatusForgotten
    /\ UNCHANGED <<dbVars, srcNodes, sStep, sResult, sScanId, sBefore, sSaved, sCount,
                   otherThanScan>>

\* status: load_snapshots; exit when there are none; otherwise rebuild and
\* report.
Status ==
    /\ LET snapshots == load_snapshots(dbNodes)
       IN  IF snapshots = << >>
           THEN tReport' = NoneV /\ tNodes' = << >> /\ tSnapshots' = << >>
           ELSE /\ tNodes' = srcNodes
                /\ tSnapshots' = snapshots
                /\ tReport' = Some(analyze_codebase_drift(srcNodes, snapshots))
    /\ UNCHANGED <<dbVars, srcNodes, sPc, sStep, sResult, sScanId, sBefore, sSaved,
                   sCount, otherThanScan>>

NextScan ==
    \/ EditSourceLogic \/ EditSourceDocstring
    \/ ScanBuild \/ ScanRecord \/ ScanSaveNodes \/ ScanSaveEdges \/ ScanFail
    \/ Status

SpecScan == InitScan /\ [][NextScan]_vars

StoreNow == << dbScans, dbNodes, dbEdges >>

\* C10 as stated: while the scan command is persisting, and after it was
\* cancelled or the store failed, the store is exactly as it was before
\* the scan; nothing of a scan is committed unless all of it is.
C10_AllOrNothing ==
    sPc \in {"running", "failed"} => StoreNow = sBefore

\* The scan command has committed its scan record: one row more in scans,
\* with the id returned to the command.
ScanRecorded ==
    /\ sScanId # NoneV
    /\ Len(dbScans) = Len(sBefore[1]) + 1
    /\ SubSeq(dbScans, 1, Len(sBefore[1])) = sBefore[1]
    /\ dbScans[Len(dbScans)].scan_id = sScanId[1]

\* The scan command has committed its snapshots: every id of the result is
\* stored once, with the hashes of the last node of that id and with the
\* scan id; the rows of other ids are the ones from before the scan.
NodesSaved ==
    /\ \A i \in DOMAIN sResult.nodes :
          LastWithId(sResult.nodes, i) =>
            \E k \in DOMAIN dbNodes :
                /\ dbNodes[k] = NodeRow(sResult.nodes[i], sScanId)
                /\ \A j \in DOMAIN dbNodes :
                      dbNodes[j].node_id = dbNodes[k].node_id => j = k
    /\ \A k \in DOMAIN dbNodes :
          dbNodes[k].node_id \notin ListIds(sResult.nodes) =>
            \E j \in DOMAIN sBefore[2] : sBefore[2][j] = dbNodes[k]
    /\ RowIds(dbNodes) = RowIds(sBefore[2]) \cup ListIds(sResult.nodes)

\* The scan command has committed its edges.
EdgesSaved ==
    /\ \A i \in DOMAIN sResult.edges : \E k \in DOMAIN dbEdges : dbEdges[k] = sResult.edges[i]
    /\ \A j \in DOMAIN sBefore[3] :
          \E k \in DOMAIN dbEdges :
              /\ dbEdges[k].caller_id = sBefore[3][j].caller_id
              /\ dbEdges[k].callee_id = sBefore[3][j].callee_id

\* C10, amended: the scan command commits record_scan, save_nodes and
\* save_edges one after the other, each completely or not at all.  At any
\* moment of the scan, and after it was cancelled or the store failed, the
\* store holds the state from before the scan changed by the calls that
\* completed, in that order: nothing; or the scan record alone; or the
\* scan record and every snapshot of the scan (edges as before).  Only a
\* scan that ends normally has all three committed.
C10_PrefixCommitted ==
    /\ sPc \in {"running", "failed"} =>
          \/ sStep = 0 /\ StoreNow = sBefore
          \/ /\ sStep = 1 /\ ScanRecorded
             /\ dbNodes = sBefore[2] /\ dbEdges = sBefore[3]
          \/ /\ sStep = 2 /\ ScanRecorded /\ NodesSaved
             /\ dbEdges = sBefore[3]
    /\ sPc = "done" => ScanRecorded /\ NodesSaved /\ EdgesSaved

\* A scan failed after its record and its snapshots were committed and
\* before its edges were.
C10_Witness ==
    /\ sPc = "failed"
    /\ sStep = 2
    /\ sResult.edges # << >>
    /\ dbNodes # sBefore[2]
    /\ dbScans # sBefore[1]
    /\ dbEdges = sBefore[3]

\* C2 as stated: the status command has just reported.  Whenever function
\* i was documented when the last committed scan saved its snapshot, has
\* kept its identifier and its docstring since, and has now a semantic
\* fingerprint other than the one it had then and other than the stored
\* one, the report classifies it STALE and lists its identifier in
\* stale_nodes.
C2_NoFalseNegative ==
    tReport # NoneV =>
        \A i \in DOMAIN tNodes :
            ( /\ i \in DOMAIN sSaved
              /\ has_docstring(sSaved[i])
              /\ sSaved[i].id = tNodes[i].id
              /\ sSaved[i].docstring = tNodes[i].docstring
              /\ tNodes[i].semantic_hash # sSaved[i].semantic_hash
              /\ tNodes[i].id \in DOMAIN tSnapshots
              /\ tNodes[i].semantic_hash # tSnapshots[tNodes[i].id].semantic_hash )
            => /\ tReport[1].statuses[i] = STALE
               /\ \E k \in DOMAIN tReport[1].stale_nodes :
                     tReport[1].stale_nodes[k] = tNodes[i].id

----------------------------------------------------------------------------
(* SpecOps: the operations of the store called one after another on one    *)
(* connection each, every operation statement by statement.  A statement   *)
(* may raise, and the process may die, wherever an operation is open.      *)

MaxOps == 3         \* operations that write, called one after another

\* The values datetime.utcnow() reads; value 0 was read by an earlier scan.
ClockValues == { 1, 2 }

Min(a, b) == IF a <= b THEN a ELSE b

OpsIdA == << "a.py", "f" >>
OpsIdB == << "b.py", "g" >>
OpsNode(id, semantic) ==
    [id |-> id, file_path |-> id[1],
     semantic_hash |-> sha256_hexdigest(<< semantic >>), doc_hash |-> NoneV]
OpsEdge(caller, callee, line) ==
    [caller_id |-> caller, callee_id |-> callee, call_line |-> line]

OpsNodeLists ==
    { << OpsNode(OpsIdA, "1"), OpsNode(OpsIdB, "1") >>, << OpsNode(OpsIdA, "2") >> }
OpsEdgeLists ==
    { << OpsEdge(OpsIdA, OpsIdB, 1) >>,
      << OpsEdge(OpsIdA, OpsIdB, 2), OpsEdge(OpsIdB, OpsIdA, 1) >> }
OpsPaths == { "a.py", "b.py", "c.py" }

\* The store a scan command left earlier, at clock value 0:
\* << scans, nodes, edges >>.
ScannedStore ==
    << record_scan(<< >>, ScanIdOf(0), 0, 2),
       save_nodes(<< >>, << OpsNode(OpsIdA, "1"), OpsNode(OpsIdB, "1") >>,
                  Some(ScanIdOf(0))),
       save_edges(<< >>, << OpsEdge(OpsIdA, OpsIdB, 1) >>) >>
OpsStores == { << << >>, << >>, << >> >>, ScannedStore }

\* The mutant deletes the rows of every file.
delete_every_file(table, file_path) == << >>

\* DELETE FROM nodes WHERE file_path = ?
delete_where_file_path(table, file_path) ==
    SelectSeq(table, LAMBDA r : r.file_path # file_path)

\* A script of clear() that empties scans first.
ClearScriptScansFirst == << 1, 2, 3 >>

\* The tables in the order the script of clear() empties them, as positions
\* of << scans, nodes, edges >>.
ClearScript == << 2, 3, 1 >>

\* The number of statements an operation executes.
StatementCount(op, arg) ==
    CASE op = "save_nodes" -> Len(arg.nodes)
      [] op = "save_edges" -> Len(arg.edges)
      [] op = "record_scan" -> 1
      [] op = "delete_file_nodes" -> 1
      [] op = "clear" -> Len(ClearScript)

\* The tables as the connection sees them after statement k of the operation.
Execute(op, arg, k, work) ==
    CASE op = "save_nodes" ->
            [work EXCEPT ![2] = insert_or_replace(@, NodeRow(arg.nodes[k], arg.scan_id))]
      [] op = "save_edges" ->
            [work EXCEPT ![3] = save_edges(@, << arg.edges[k] >>)]
      [] op = "record_scan" ->
            [work EXCEPT ![1] = record_scan(@, arg.scan_id, arg.timestamp,
                                            arg.nodes_found)]
      [] op = "delete_file_nodes" ->
            [work EXCEPT ![2] = delete_where_file_path(@, arg.file_path)]
      [] op = "clear" ->
            [work EXCEPT ![ClearScript[k]] = << >>]

\* Connection.executescript commits the pending transaction and runs the
\* statements of the script outside any transaction: each one is committed
\* when it ends.  Connection.execute opens a transaction before the first
\* statement that writes.
Autocommit(op) == op = "clear"

\* What the operation returns after `with self._connection()` has committed.
ReturnValue(op, arg, before, work) ==
    CASE op = "record_scan" -> Some(arg.scan_id)
      [] op = "delete_file_nodes" -> Some(Len(before[2]) - Len(work[2]))
      [] OTHER -> NoneV

\* SELECT ... FROM scans ORDER BY timestamp DESC LIMIT ?: every result the
\* statement may give; the order of rows with equal timestamps is not fixed.
get_scan_history(table, limit) ==
    LET n == Len(table)
        orders == { p \in [1..n -> 1..n] :
                      /\ \A i, j \in 1..n : i # j => p[i] # p[j]
                      /\ \A i, j \in 1..n :
                            i < j => table[p[i]].timestamp >= table[p[j]].timestamp }
    IN  { [i \in 1..Min(limit, n) |-> table[p[i]]] : p \in orders }

InitOps ==
    /\ \E store \in OpsStores :
          dbScans = store[1] /\ dbNodes = store[2] /\ dbEdges = store[3]
    /\ oPc = "idle" /\ oOp = "none" /\ oArg = << >> /\ oIdx = 0
    /\ oWork = << dbScans, dbNodes, dbEdges >>
    /\ oBefore = << dbScans, dbNodes, dbEdges >>
    /\ oOut = NoneV /\ oClock = 1 /\ oCalls = 0
    /\ ClassifyIdle /\ HashIdle /\ ExtractIdle /\ StoreIdle /\ ScanIdle
    /\ ReportIdle /\ GraphIdle /\ BuildIdle /\ CallIdle

otherThanOps ==
    <<classVars, hashVars, extractVars, storeVars, scanVars, reportVars, graphVars,
      buildVars, callVars>>

\* The arguments an operation may be called with now.
OpsArgs(op) ==
    CASE op = "save_nodes" ->
            { [nodes |-> l, scan_id |-> Some(ScanIdOf(0))] : l \in OpsNodeLists }
      [] op = "save_edges" -> { [edges |-> l] : l \in OpsEdgeLists }
      [] op = "record_scan" ->
            { [scan_id |-> ScanIdOf(oCalls + 1), timestamp |-> oClock,
               nodes_found |-> 1] }
      [] op = "delete_file_nodes" -> { [file_path |-> f] : f \in OpsPaths }
      [] op = "clear" -> { [script |-> ClearScript] }

\* An operation is called: its connection is opened.
OpBegin ==
    /\ oPc # "open"
    /\ oCalls < MaxOps
    /\ \E op \in {"save_nodes", "save_edges", "record_scan", "delete_file_nodes",
                  "clear"} :
          /\ oOp' = op
          /\ oArg' \in OpsArgs(op)
    /\ oPc' = "open"
    /\ oIdx' = 0
    /\ oWork' = << dbScans, dbNodes, dbEdges >>
    /\ oBefore' = << dbScans, dbNodes, dbEdges >>
    /\ oOut' = NoneV
    /\ oCalls' = oCalls + 1
    /\ UNCHANGED <<dbVars, oClock, otherThanOps>>

\* The next statement of the operation is executed.
OpExecute ==
    /\ oPc = "open"
    /\ oIdx < StatementCount(oOp, oArg)
    /\ oIdx' = oIdx + 1
    /\ oWork' = Execute(oOp, oArg, oIdx + 1, oWork)
    /\ IF Autocommit(oOp)
       THEN dbScans' = oWork'[1] /\ dbNodes' = oWork'[2] /\ dbEdges' = oWork'[3]
       ELSE UNCHANGED dbVars
    /\ UNCHANGED <<oPc, oOp, oArg, oBefore, oOut, oClock, oCalls, otherThanOps>>

\* _connection: the block ended, conn.commit(), and the operation returns.
OpCommit ==
    /\ oPc = "open"
    /\ oIdx = StatementCount(oOp, oArg)
    /\ dbScans' = oWork[1] /\ dbNodes' = oWork[2] /\ dbEdges' = oWork[3]
    /\ oPc' = "returned"
    /\ oOut' = ReturnValue(oOp, oArg, oBefore, oWork)
    /\ UNCHANGED <<oOp, oArg, oIdx, oWork, oBefore, oClock, oCalls, otherThanOps>>

\* _connection: a statement raised, conn.rollback(); or the process died and
\* the next connection rolls the journal back.  What was committed stays.
OpRollback ==
    /\ oPc = "open"
    /\ oPc' = "raised"
    /\ oWork' = << dbScans, dbNodes, dbEdges >>
    /\ UNCHANGED <<dbVars, oOp, oArg, oIdx, oBefore, oOut, oClock, oCalls,
                   otherThanOps>>

\* Time passes, or the wall clock is set, between two operations.
ClockChange ==
    /\ oPc # "open"
    /\ \E t \in ClockValues : t # oClock /\ oClock' = t
    /\ UNCHANGED <<dbVars, oPc, oOp, oArg, oIdx, oWork, oBefore, oOut, oCalls,
                   otherThanOps>>

\* get_scan_history(limit) is called and returns; the limit is less than,
\* equal to or more than the number of scans recorded.
GetScanHistory ==
    /\ oPc # "open"
    /\ \E limit \in 0..(Len(dbScans) + 1) :
          /\ oArg' = [limit |-> limit]
          /\ \E history \in get_scan_history(dbScans, limit) : oOut' = Some(history)
    /\ oOp' = "get_scan_history"
    /\ oPc' = "returned"
    /\ oIdx' = 0
    /\ oWork' = << dbScans, dbNodes, dbEdges >>
    /\ oBefore' = << dbScans, dbNodes, dbEdges >>
    /\ UNCHANGED <<dbVars, oClock, oCalls, otherThanOps>>

NextOps ==
    \/ OpBegin \/ OpExecute \/ OpCommit \/ OpRollback
    \/ ClockChange \/ GetScanHistory

SpecOps == InitOps /\ [][NextOps]_vars

\* C11: every store operation is atomic: while it is open, and after it
\* raised or the process died, the committed tables are those it found; no
\* committed state holds a part of its writes.
C11_Atomic ==
    oPc \in {"open", "raised"} => << dbScans, dbNodes, dbEdges >> = oBefore

\* The number of the record_scan call that wrote a row of scans.
CallOf(row) == row.scan_id[2]

\* C19: get_scan_history(limit) returns min(limit, number of recorded scans)
\* records, most recent first: the record of a later record_scan call
\* precedes the record of every earlier call.
C19_MostRecentFirst ==
    (oPc = "returned" /\ oOp = "get_scan_history") =>
        LET history == oOut[1]
        IN  /\ Len(history) = Min(oArg.limit, Len(dbScans))
            /\ \A i, j \in DOMAIN history :
                  i < j => CallOf(history[i]) > CallOf(history[j])

\* The rows of a table, as positions, that lie in a file.
RowsOfFile(table, file_path) ==
    { i \in DOMAIN table : table[i].file_path = file_path }

\* C20: delete_file_nodes(path) removes exactly the snapshots whose file_path
\* is path and returns their number; the snapshots of other files, all edge
\* rows and all scan records are as they were.
C20_DeleteFileNodes ==
    (oPc = "returned" /\ oOp = "delete_file_nodes") =>
        LET path == oArg.file_path
            before == oBefore[2]
            kept == { i \in DOMAIN before : i \notin RowsOfFile(before, path) }
        IN  /\ RowsOfFile(dbNodes, path) = {}
            /\ Len(dbNodes) = Cardinality(kept)
            /\ \A i \in kept : \E k \in DOMAIN dbNodes : dbNodes[k] = before[i]
            /\ oOut = Some(Cardinality(RowsOfFile(before, path)))
            /\ dbEdges = oBefore[3]
            /\ dbScans = oBefore[1]

\* delete_file_nodes removed the snapshot of one file and left that of
\* another, with edge rows and scan records in the store.
C20_Witness ==
    /\ oPc = "returned" /\ oOp = "delete_file_nodes"
    /\ oOut = Some(1)
    /\ dbNodes # << >> /\ dbEdges # << >> /\ dbScans # << >>

----------------------------------------------------------------------------
(* SpecRescan: the commands of SpecScan on a source tree from which        *)
(* functions are deleted and to which they are added back, with clear and  *)
(* delete_file_nodes called on the store between the commands.             *)

\* The three tables after the first k statements of the script of clear().
RECURSIVE clear_statements(_, _)
clear_statements(store, k) ==
    IF k = 0 THEN store
    ELSE Execute("clear", << >>, k, clear_statements(store, k - 1))

\* The source trees of SpecRescan: f alone; f and g; g alone, edited (f was
\* deleted); two definitions that get the id of f, with the same docstring
\* and different logic.
RescanTrees ==
    { << SourceNode(IdF, "1", Doc1) >>,
      << SourceNode(IdF, "1", Doc1), SourceNode(IdG, "1", Doc1) >>,
      << SourceNode(IdG, "2", Doc1) >>,
      << SourceNode(IdF, "2", Doc1), SourceNode(IdF, "1", Doc1) >> }

InitRescan ==
    /\ srcNodes \in RescanTrees
    /\ dbScans = << >> /\ dbNodes = << >> /\ dbEdges = << >>
    /\ sPc = "idle" /\ sStep = 0 /\ sResult = << >> /\ sScanId = NoneV
    /\ sBefore = << dbScans, dbNodes, dbEdges >>
    /\ sSaved = << >> /\ sCount = 0
    /\ tReport = NoneV /\ tNodes = << >> /\ tSnapshots = << >>
    /\ ClassifyIdle /\ HashIdle /\ ExtractIdle /\ StoreIdle /\ MoreIdle

\* The source is edited (between commands): functions are deleted, added
\* back or changed.
EditSource ==
    /\ sPc # "running"
    /\ \E tree \in RescanTrees \ {srcNodes} : srcNodes' = tree
    /\ StatusForgotten
    /\ UNCHANGED <<dbVars, sPc, sStep, sResult, sScanId, sBefore, sSaved, sCount,
                   otherThanScan>>

\* db.clear(): the script runs to its end, or the process dies after one of
\* its statements, each of which is committed on its own.
Clear ==
    /\ sPc # "running"
    /\ \E k \in 1..Len(ClearScript) :
          LET store == clear_statements(<< dbScans, dbNodes, dbEdges >>, k)
          IN  dbScans' = store[1] /\ dbNodes' = store[2] /\ dbEdges' = store[3]
    /\ StatusForgotten
    /\ UNCHANGED <<srcNodes, sPc, sStep, sResult, sScanId, sBefore, sSaved, sCount,
                   otherThanScan>>

\* db.delete_file_nodes(file_path) commits.
DeleteFileNodes ==
    /\ sPc # "running"
    /\ \E file_path \in {"a.py", "b.py"} :
          dbNodes' = delete_where_file_path(dbNodes, file_path)
    /\ StatusForgotten
    /\ UNCHANGED <<dbScans, dbEdges, srcNodes, sPc, sStep, sResult, sScanId, sBefore,
                   sSaved, sCount, otherThanScan>>

NextRescan ==
    \/ EditSource
    \/ ScanBuild \/ ScanRecord \/ ScanSaveNodes \/ ScanSaveEdges \/ ScanFail
    \/ Status
    \/ Clear \/ DeleteFileNodes

SpecRescan == InitRescan /\ [][NextRescan]_vars

\* A step of the scan command.
ScanStep == sPc = "running" \/ sPc' = "running"

\* C25: a scan only adds or overwrites snapshots.  Every identifier stored
\* before a step of a scan command is stored after it, the row of an
\* identifier that is not in the scan's result is left as it is, and a
\* status command looks a callable up in what is stored under its
\* identifier, also when it was absent from the source at the last scan.
C25_ScanKeepsSnapshots ==
    /\ [][ScanStep =>
            \A k \in DOMAIN dbNodes :
                /\ dbNodes[k].node_id \in RowIds(dbNodes')
                /\ dbNodes[k].node_id \notin ListIds(sResult'.nodes) =>
                      \E j \in DOMAIN dbNodes' : dbNodes'[j] = dbNodes[k]]_vars
    /\ [](tReport # NoneV =>
            \A i \in DOMAIN tNodes :
                tNodes[i].id \in RowIds(dbNodes) =>
                    /\ tNodes[i].id \in DOMAIN tSnapshots
                    /\ \E k \in DOMAIN dbNodes :
                          tSnapshots[tNodes[i].id] = RowSnapshot(dbNodes[k]))

\* The status command has reported on a function that was not in the
\* source when the last scan ran to its end, with the snapshot stored
\* before that scan.
C25_Witness ==
    /\ tReport # NoneV
    /\ sPc = "done"
    /\ \E i \in DOMAIN tNodes :
          /\ tNodes[i].id \notin ListIds(sResult.nodes)
          /\ tNodes[i].id \in DOMAIN tSnapshots
          /\ \E k \in DOMAIN sBefore[2] :
                tSnapshots[tNodes[i].id] = RowSnapshot(sBefore[2][k])

\* C26 as stated: a status command run right after a scan that ran to its
\* end, on the tree the scan saw and the store the scan left, reports no
\* stale callable.
C26_ScanResetsStaleness ==
    ( /\ tReport # NoneV
      /\ sPc = "done"
      /\ tNodes = sResult.nodes
      /\ NodesSaved ) => tReport[1].stale_count = 0

\* C27: referential integrity of scan ids.  Every row of nodes with a scan
\* id refers to a row of scans; when save_nodes is called with a scan id,
\* the row of scans with that id holds the number of records passed as
\* nodes_found; and a row of scans keeps its nodes_found while it exists.
C27_ScanIdsRefer ==
    /\ [](\A k \in DOMAIN dbNodes :
            dbNodes[k].scan_id # NoneV =>
                \E j \in DOMAIN dbScans : dbScans[j].scan_id = dbNodes[k].scan_id[1])
    /\ [][(ScanAt("save_nodes") /\ sStep' = sStep + 1) =>
            \E j \in DOMAIN dbScans' :
                /\ dbScans'[j].scan_id = sScanId[1]
                /\ dbScans'[j].nodes_found = Len(sResult.nodes)]_vars
    /\ [][\A i \in DOMAIN dbScans, j \in DOMAIN dbScans' :
            dbScans[i].scan_id = dbScans'[j].scan_id =>
                dbScans[i].nodes_found = dbScans'[j].nodes_found]_vars

\* A second scan ran to its end after clear() had emptied the store of the
\* first: the rows of nodes refer to the one row of scans.
C27_Witness ==
    /\ sPc = "done"
    /\ sCount = 2
    /\ Len(dbScans) = 1
    /\ \E k \in DOMAIN dbNodes : dbNodes[k].scan_id = Some(dbScans[1].scan_id)

----------------------------------------------------------------------------
(* SpecReport: analyze_codebase_drift applied to every list of nodes and   *)
(* every snapshot map within the bounds.                                   *)

MaxReportNodes == 2     \* nodes in the list

ReportNodes ==
    { SourceNode(id, semantic, docstring) :
        id \in {IdF, IdG}, semantic \in {"1", "2"}, docstring \in {NoneV, Doc1, Doc2} }

\* Every dictionary of snapshots taken of these nodes, keyed by node id.
ReportSnapshots ==
    UNION { { m \in [ids -> { RowSnapshot(NodeRow(n, NoneV)) : n \in ReportNodes }] :
                \A id \in ids : m[id].node_id = id } :
            ids \in SUBSET {IdF, IdG} }

InitReport ==
    /\ pNodes \in SeqsUpTo(ReportNodes, MaxReportNodes)
    /\ pSnapshots \in ReportSnapshots
    /\ pReport = NoneV
    /\ ClassifyIdle /\ HashIdle /\ ExtractIdle /\ DbIdle /\ StoreIdle /\ ScanIdle
    /\ OpsIdle /\ GraphIdle /\ BuildIdle /\ CallIdle

Analyze ==
    /\ pReport = NoneV
    /\ pReport' = Some(analyze_codebase_drift(pNodes, pSnapshots))
    /\ UNCHANGED <<pNodes, pSnapshots, classVars, hashVars, extractVars, dbVars,
                   storeVars, scanVars, opsVars, graphVars, buildVars, callVars>>

NextReport == Analyze

SpecReport == InitReport /\ [][NextReport]_vars

\* The identifiers are those of nodes of the list at increasing positions.
InInputOrder(ids, nodes) ==
    \E pos \in [DOMAIN ids -> DOMAIN nodes] :
        /\ \A i, j \in DOMAIN ids : i < j => pos[i] < pos[j]
        /\ \A i \in DOMAIN ids : nodes[pos[i]].id = ids[i]

\* C12: the report of analyze_codebase_drift has fresh_count + stale_count +
\* undocumented_count = total_nodes = length of the list, as many entries in
\* stale_nodes and undocumented_nodes as the counts say, and the identifiers
\* of both lists in input order.
C12_FoldConsistent ==
    pReport # NoneV =>
        LET report == pReport[1]
        IN  /\ report.fresh_count + report.stale_count + report.undocumented_count
                  = total_nodes(report)
            /\ total_nodes(report) = Len(pNodes)
            /\ Len(report.stale_nodes) = report.stale_count
            /\ Len(report.undocumented_nodes) = report.undocumented_count
            /\ InInputOrder(report.stale_nodes, pNodes)
            /\ InInputOrder(report.undocumented_nodes, pNodes)

\* A report with two stale nodes of different identifiers.
C12_Witness ==
    /\ pReport # NoneV
    /\ Len(pReport[1].stale_nodes) = 2
    /\ pReport[1].stale_nodes[1] # pReport[1].stale_nodes[2]

----------------------------------------------------------------------------
(* SpecGraph: CodeGraph under any sequence of add_node, add_edge,          *)
(* update_node_status and clear, queried by get_nodes_by_file and          *)
(* get_affected_by_change.  The DiGraph is its node dictionary and its     *)
(* edge dictionary.                                                        *)

MaxGraphOps == 3    \* operations that change the graph
CallLines == {1, 2} \* line numbers of call sites

GraphIds == { "a", "b", "c" }
GraphPaths == { "p.py", "q.py" }

\* The CodeNode handed to add_node (the fields the graph reads).
GraphNode(id, file_path, drift_status) ==
    [id |-> id, file_path |-> file_path, drift_status |-> drift_status]

\* CodeNode.with_drift_status
with_drift_status(node, status) == [node EXCEPT !.drift_status = status]

\* DiGraph.predecessors: the direct callers; the mutant of ancestors.
predecessors(edges, source) == { e[1] : e \in { d \in DOMAIN edges : d[2] = source } }

\* networkx.ancestors: breadth first over the reversed edges from source;
\* source itself is not among its ancestors.
RECURSIVE ancestors_from(_, _, _)
ancestors_from(edges, frontier, seen) ==
    LET next == UNION { predecessors(edges, x) : x \in frontier } \ seen
    IN  IF next = {} THEN seen ELSE ancestors_from(edges, next, seen \cup next)

ancestors(edges, source) == ancestors_from(edges, {source}, {source}) \ {source}

\* CodeGraph.get_node
get_node(attrs, node_id) ==
    IF node_id \notin DOMAIN attrs THEN NoneV ELSE attrs[node_id]

\* CodeGraph.get_nodes_by_file: what the generator yields, keyed by the node
\* id of the index it was looked up with (an id of the set is looked up once).
get_nodes_by_file(attrs, file_index, file_path) ==
    LET node_ids == IF file_path \in DOMAIN file_index THEN file_index[file_path]
                    ELSE {}
    IN  [node_id \in { i \in node_ids : get_node(attrs, i) # NoneV } |->
            get_node(attrs, node_id)[1]]

\* CodeGraph.get_affected_by_change
get_affected_by_change(attrs, edges, node_ids) ==
    node_ids \cup UNION { ancestors(edges, n) : n \in node_ids \cap DOMAIN attrs }

InitGraph ==
    /\ gAttrs = << >> /\ gEdges = << >> /\ gFileIndex = << >>
    /\ gOut = NoneV /\ gCalls = 0 /\ gReplaced = NoneV
    /\ gCallLines = {1}
    /\ ClassifyIdle /\ HashIdle /\ ExtractIdle /\ DbIdle /\ StoreIdle /\ ScanIdle
    /\ OpsIdle /\ ReportIdle /\ BuildIdle /\ CallIdle

otherThanGraph ==
    <<classVars, hashVars, extractVars, dbVars, storeVars, scanVars, opsVars,
      reportVars, buildVars, callVars>>

\* An operation that changes the graph is called.
GraphChanges ==
    /\ gCalls < MaxGraphOps
    /\ gCalls' = gCalls + 1
    /\ gOut' = NoneV
    /\ UNCHANGED <<gCallLines, otherThanGraph>>

\* add_node(node): the attributes of node.id are set, the file index of
\* node.file_path gains node.id.
add_node ==
    /\ GraphChanges
    /\ \E id \in GraphIds, file_path \in GraphPaths :
          LET node == GraphNode(id, file_path, UNDOCUMENTED)
          IN  /\ gAttrs' = DictPut(gAttrs, id, Some(node))
              /\ gFileIndex' =
                    DictPut(gFileIndex, file_path,
                            (IF file_path \in DOMAIN gFileIndex
                             THEN gFileIndex[file_path] ELSE {}) \cup {id})
    /\ gReplaced' = NoneV
    /\ UNCHANGED gEdges

\* An add_edge that keeps the data of an edge the graph already holds.
add_edge_once(edges, u_of_edge, v_of_edge, call_line) ==
    IF << u_of_edge, v_of_edge >> \in DOMAIN edges THEN edges
    ELSE DictPut(edges, << u_of_edge, v_of_edge >>, call_line)

\* DiGraph.add_edge(u_of_edge, v_of_edge, call_line=...): a DiGraph holds
\* one edge per ordered pair, whose data the call updates.
DiGraph_add_edge(edges, u_of_edge, v_of_edge, call_line) ==
    DictPut(edges, << u_of_edge, v_of_edge >>, call_line)

\* DiGraph.number_of_edges
edge_count(edges) == Cardinality(DOMAIN edges)

\* add_edge(edge) with the given CallEdge: DiGraph.add_edge creates the
\* nodes it does not hold, without attributes.
AddEdge(caller_id, callee_id, call_line) ==
    /\ gEdges' = DiGraph_add_edge(gEdges, caller_id, callee_id, call_line)
    /\ gAttrs' = [id \in DOMAIN gAttrs \cup {caller_id, callee_id} |->
                      IF id \in DOMAIN gAttrs THEN gAttrs[id] ELSE NoneV]
    /\ gReplaced' = IF << caller_id, callee_id >> \in DOMAIN gEdges
                    THEN Some([caller_id |-> caller_id, callee_id |-> callee_id,
                               call_line |-> gEdges[<< caller_id, callee_id >>]])
                    ELSE NoneV
    /\ UNCHANGED gFileIndex

add_edge ==
    /\ GraphChanges
    /\ \E caller_id \in GraphIds, callee_id \in GraphIds, call_line \in gCallLines :
          AddEdge(caller_id, callee_id, call_line)

\* update_node_status(node_id, status)
update_node_status ==
    /\ GraphChanges
    /\ \E node_id \in GraphIds, status \in {FRESH, STALE} :
          gAttrs' = IF node_id \in DOMAIN gAttrs /\ gAttrs[node_id] # NoneV
                    THEN [gAttrs EXCEPT
                            ![node_id] = Some(with_drift_status(@[1], status))]
                    ELSE gAttrs
    /\ gReplaced' = NoneV
    /\ UNCHANGED <<gEdges, gFileIndex>>

\* CodeGraph.clear()
GraphClear ==
    /\ GraphChanges
    /\ gAttrs' = << >> /\ gEdges' = << >> /\ gFileIndex' = << >>
    /\ gReplaced' = NoneV

\* get_nodes_by_file(file_path) is called and its generator is exhausted.
GetNodesByFile ==
    /\ \E file_path \in GraphPaths :
          gOut' = Some([op |-> "get_nodes_by_file", file_path |-> file_path,
                        yielded |-> get_nodes_by_file(gAttrs, gFileIndex, file_path)])
    /\ UNCHANGED <<gAttrs, gEdges, gFileIndex, gCalls, gReplaced, gCallLines,
                   otherThanGraph>>

\* get_affected_by_change(node_ids) is called and returns.
GetAffectedByChange ==
    /\ \E node_ids \in SUBSET GraphIds :
          gOut' = Some([op |-> "get_affected_by_change", node_ids |-> node_ids,
                        affected |-> get_affected_by_change(gAttrs, gEdges, node_ids)])
    /\ UNCHANGED <<gAttrs, gEdges, gFileIndex, gCalls, gReplaced, gCallLines,
                   otherThanGraph>>

NextGraph ==
    \/ add_node \/ add_edge \/ update_node_status \/ GraphClear
    \/ GetNodesByFile \/ GetAffectedByChange

SpecGraph == InitGraph /\ [][NextGraph]_vars

\* SpecEdges: a graph is filled with nodes and with call edges whose call
\* sites are on different lines.
InitEdges ==
    /\ gAttrs = << >> /\ gEdges = << >> /\ gFileIndex = << >>
    /\ gOut = NoneV /\ gCalls = 0 /\ gReplaced = NoneV
    /\ gCallLines = CallLines
    /\ ClassifyIdle /\ HashIdle /\ ExtractIdle /\ DbIdle /\ StoreIdle /\ ScanIdle
    /\ OpsIdle /\ ReportIdle /\ BuildIdle /\ CallIdle

NextEdges == add_node \/ add_edge

SpecEdges == InitEdges /\ [][NextEdges]_vars

\* A directed caller-to-callee path of one edge or more leads from y to x.
PathLeads(y, x) ==
    \E path \in SeqsUpTo(GraphIds, Cardinality(GraphIds) + 1) :
        /\ Len(path) >= 2
        /\ path[1] = y /\ path[Len(path)] = x
        /\ \A i \in 1..(Len(path) - 1) : << path[i], path[i + 1] >> \in DOMAIN gEdges

Answered(op) == gOut # NoneV /\ gOut[1].op = op

\* C13: get_affected_by_change(S) returns exactly S together with every node
\* from which a directed caller-to-callee path leads to a node of S, also in
\* graphs with self-edges and cycles; every x is in the answer for {x}.
C13_AncestorClosure ==
    Answered("get_affected_by_change") =>
        LET S == gOut[1].node_ids
        IN  /\ gOut[1].affected =
                  S \cup { y \in DOMAIN gAttrs : \E x \in S : PathLeads(y, x) }
            /\ \A x \in S : x \in gOut[1].affected

\* The answer holds a node two calls away from the changed node, in a graph
\* with a cycle.
C13_Witness ==
    /\ Answered("get_affected_by_change")
    /\ gOut[1].node_ids = {"c"}
    /\ gOut[1].affected = {"a", "b", "c"}
    /\ << "a", "b" >> \in DOMAIN gEdges /\ << "b", "c" >> \in DOMAIN gEdges
    /\ \E x \in GraphIds : PathLeads(x, x)

\* C14: get_nodes_by_file(p) yields exactly the callables held by the graph
\* whose file_path is p, each once.
C14_FileIndexConsistent ==
    Answered("get_nodes_by_file") =>
        LET yielded == gOut[1].yielded
            held == { id \in DOMAIN gAttrs :
                        /\ gAttrs[id] # NoneV
                        /\ gAttrs[id][1].file_path = gOut[1].file_path }
        IN  /\ DOMAIN yielded = held
            /\ \A id \in held : yielded[id] = gAttrs[id][1]

\* The call lines the graph holds on the edges from a to b.
call_lines(edges, a, b) ==
    IF << a, b >> \in DOMAIN edges THEN { edges[<< a, b >>] } ELSE {}

\* An add_edge is accepted whatever its ends are: both are nodes of the
\* graph afterwards, and an end that was no node has no CodeNode.
EndsAccepted(a, b) ==
    /\ {a, b} \subseteq DOMAIN gAttrs'
    /\ \A id \in {a, b} \ DOMAIN gAttrs : get_node(gAttrs', id) = NoneV

\* C24 as stated: the graph is a multigraph, so an add_edge(a, b, line2)
\* made when the graph holds a call from a to b at another line adds an
\* edge and both call lines are retained; self-edges and edges to targets
\* without CodeNode are accepted, and get_node of such a target is None.
C24_Multigraph ==
    [][\A a \in GraphIds, b \in GraphIds, line \in CallLines :
          AddEdge(a, b, line) =>
              /\ EndsAccepted(a, b)
              /\ call_lines(gEdges, a, b) \ {line} # {} =>
                    /\ edge_count(gEdges') = edge_count(gEdges) + 1
                    /\ call_lines(gEdges, a, b) \cup {line} \subseteq call_lines(gEdges', a, b)]_vars

\* C24 amended: the graph is a simple directed graph, one edge per ordered
\* pair.  add_edge(a, b, line) adds the edge if the graph holds no edge
\* from a to b (edge_count grows by 1) and otherwise overwrites the call
\* line of the edge it holds (edge_count is unchanged and only the latest
\* call line is retained); the other edges are untouched; self-edges and
\* edges to targets without CodeNode are accepted, and get_node of such a
\* target is None.
C24_SimpleDigraph ==
    [][\A a \in GraphIds, b \in GraphIds, line \in CallLines :
          AddEdge(a, b, line) =>
              /\ EndsAccepted(a, b)
              /\ call_lines(gEdges', a, b) = {line}
              /\ edge_count(gEdges') =
                    edge_count(gEdges) + (IF call_lines(gEdges, a, b) = {} THEN 1 ELSE 0)
              /\ \A e \in DOMAIN gEdges \ {<< a, b >>} :
                    e \in DOMAIN gEdges' /\ gEdges'[e] = gEdges[e] ]_vars

\* An add_edge(a, b, line2) was made on a graph that held the call from a
\* to b at another line, which is no longer held; a self-edge and an edge
\* to a target without CodeNode are held too.
C24_Witness ==
    /\ gReplaced # NoneV
    /\ call_lines(gEdges, gReplaced[1].caller_id, gReplaced[1].callee_id)
          \ {gReplaced[1].call_line} # {}
    /\ \E a \in GraphIds : << a, a >> \in DOMAIN gEdges
    /\ \E e \in DOMAIN gEdges : get_node(gAttrs, e[2]) = NoneV

----------------------------------------------------------------------------
(* SpecBuild: build_graph_from_directory goes through the candidate files  *)
(* of a directory; the scan command persists the result and exits; the     *)
(* status command builds again and reports.  A file is unreadable, or does *)
(* not parse, or holds functions, given by their syntax trees, and calls.  *)
(* Computing the semantic hash of a function may raise.                    *)

MaxFiles == 2       \* candidate files in the directory

BuildPaths == << "a.py", "b.py", "c.py", "d.py" >>

\* def <name>():\n    return 1\n, with a docstring line above when doc is
\* not None: """d""", """ """ (whitespace only) or """""" (empty).
BuildDef(name, doc) ==
    Def(name, Block(
        (IF doc = NoneV THEN << >>
         ELSE << StatementLine(Expr(SimpleString(DocLiteral(doc[1])))) >>)
        \o << StatementLine(Return(Integer("1"))) >>))

\* A function of a file: its tree, and whether compute_semantic_hash raises.
BuildFunction(name, doc, raises) ==
    [name |-> name, node |-> BuildDef(name, doc), hash_raises |-> raises]

BuildCall(caller, callee) ==
    [caller_qualified_name |-> caller, callee_name |-> callee, call_line |-> 2]

Parsed(functions, calls) ==
    [outcome |-> "parsed", functions |-> functions, calls |-> calls]
Unparsed(outcome) == [outcome |-> outcome, functions |-> << >>, calls |-> << >>]

\* What a candidate file may hold.
FileContents ==
    { Unparsed("UnicodeDecodeError"), Unparsed("ParserSyntaxError"),
      Parsed(<< >>, << >>),
      Parsed(<< BuildFunction("f", NoneV, FALSE) >>, << BuildCall("f", "h") >>),
      Parsed(<< BuildFunction("f", Some(<<"d">>), FALSE) >>, << >>),
      Parsed(<< BuildFunction("f", Some(<<" ">>), FALSE) >>, << >>),
      Parsed(<< BuildFunction("f", Some(<< >>), FALSE) >>, << >>),
      Parsed(<< BuildFunction("f", Some(<<"d">>), TRUE),
                BuildFunction("g", Some(<<"e">>), FALSE) >>,
             << BuildCall("f", "g") >>) }

Directories ==
    { [i \in DOMAIN contents |-> [path |-> BuildPaths[i], content |-> contents[i]]] :
        contents \in SeqsUpTo(FileContents, MaxFiles) }

EmptyScanResult ==
    [nodes |-> << >>, edges |-> << >>, files_scanned |-> 0, errors |-> << >>]

\* The CodeNode made of a function of the file.
BuildNode(file_path, func) ==
    LET hashed == CodeNodeOf(func.node)
        documented == hashed.docstring # NoneV /\ hashed.docstring[1] # << >>
    IN  [id |-> << file_path, func.name >>,
         file_path |-> file_path,
         semantic_hash |-> IF func.hash_raises THEN << >> ELSE hashed.semantic_hash,
         docstring |-> hashed.docstring,
         doc_hash |-> hashed.doc_hash,
         drift_status |-> IF documented THEN FRESH ELSE UNDOCUMENTED]

BuildEdge(file_path, call) ==
    [caller_id |-> << file_path, call.caller_qualified_name >>,
     callee_id |-> << file_path, call.callee_name >>,
     call_line |-> call.call_line]

\* The mutant handler drops the exception.
on_exception_pass(result, file_path, e) == result

\* except Exception as e: result.errors.append((str(file_path), str(e)))
on_exception(result, file_path, e) ==
    [result EXCEPT !.errors = Append(@, << file_path, e >>)]

\* A turn of the loop that counts the file before it reads it.
process_file_counted_first(result, file) ==
    LET counted == [result EXCEPT !.files_scanned = @ + 1]
    IN  IF file.content.outcome # "parsed"
        THEN on_exception(counted, file.path, file.content.outcome)
        ELSE [counted EXCEPT
                !.nodes = @ \o [k \in DOMAIN file.content.functions |->
                                    BuildNode(file.path, file.content.functions[k])],
                !.edges = @ \o [k \in DOMAIN file.content.calls |->
                                    BuildEdge(file.path, file.content.calls[k])]]

\* One turn of the loop over py_files.  read_text and the parse in
\* extract_functions_from_source raise before anything is appended to the
\* result; extract_calls_from_source parses the same text again.
process_file(result, file) ==
    IF file.content.outcome # "parsed"
    THEN on_exception(result, file.path, file.content.outcome)
    ELSE [result EXCEPT
            !.nodes = @ \o [k \in DOMAIN file.content.functions |->
                                BuildNode(file.path, file.content.functions[k])],
            !.edges = @ \o [k \in DOMAIN file.content.calls |->
                                BuildEdge(file.path, file.content.calls[k])],
            !.files_scanned = @ + 1]

RECURSIVE build_from(_, _)
build_from(files, result) ==
    IF files = << >> THEN result
    ELSE build_from(Tail(files), process_file(result, Head(files)))

build_graph_from_directory(files) == build_from(files, EmptyScanResult)

\* The exit status of the scan command that got a ScanResult: the command
\* prints the errors and returns.
scan_exit_status(result) == 0

InitBuild ==
    /\ bFiles \in Directories
    /\ bIdx = 0
    /\ bResult = EmptyScanResult
    /\ bPc = "building"
    /\ bExit = NoneV
    /\ bReport = NoneV
    /\ ClassifyIdle /\ HashIdle /\ ExtractIdle /\ DbIdle /\ StoreIdle /\ ScanIdle
    /\ OpsIdle /\ ReportIdle /\ GraphIdle /\ CallIdle

otherThanBuild ==
    <<classVars, hashVars, extractVars, storeVars, scanVars, opsVars, reportVars,
      graphVars, callVars>>

\* build_graph_from_directory: the next file of py_files.
BuildFile ==
    /\ bPc = "building"
    /\ bIdx < Len(bFiles)
    /\ bResult' = process_file(bResult, bFiles[bIdx + 1])
    /\ bIdx' = bIdx + 1
    /\ UNCHANGED <<dbVars, bFiles, bPc, bExit, bReport, otherThanBuild>>

\* scan: the build returned; record_scan, save_nodes, save_edges; the
\* summary and the errors are printed and the command ends.
ScanEnds ==
    /\ bPc = "building"
    /\ bIdx = Len(bFiles)
    /\ dbScans' = record_scan(dbScans, ScanIdOf(1), 1, Len(bResult.nodes))
    /\ dbNodes' = save_nodes(dbNodes, bResult.nodes, Some(ScanIdOf(1)))
    /\ dbEdges' = save_edges(dbEdges, bResult.edges)
    /\ bExit' = Some(scan_exit_status(bResult))
    /\ bPc' = "exited"
    /\ UNCHANGED <<bFiles, bIdx, bResult, bReport, otherThanBuild>>

\* status: load_snapshots; without snapshots the command ends; otherwise
\* the directory is built again and the nodes are classified.
StatusEnds ==
    /\ bPc = "exited"
    /\ LET snapshots == load_snapshots(dbNodes)
       IN  bReport' = IF snapshots = << >> THEN NoneV
                      ELSE Some(analyze_codebase_drift(
                                    build_graph_from_directory(bFiles).nodes,
                                    snapshots))
    /\ bPc' = "reported"
    /\ UNCHANGED <<dbVars, bFiles, bIdx, bResult, bExit, otherThanBuild>>

NextBuild == BuildFile \/ ScanEnds \/ StatusEnds

SpecBuild == InitBuild /\ [][NextBuild]_vars

\* C15: every CodeNode of a scan has a doc_hash if and only if a non-empty
\* docstring was found, that is if and only if has_docstring is true.
C15_DocHashIffDocstring ==
    \A i \in DOMAIN bResult.nodes :
        (bResult.nodes[i].doc_hash # NoneV) <=> has_docstring(bResult.nodes[i])

\* The files the build has been through, as positions.
FilesDone == 1..bIdx
\* The functions of the files the build has been through whose semantic
\* hash could not be computed, as << file, function >> positions.
HashFailures ==
    UNION { { << i, k >> : k \in { j \in DOMAIN bFiles[i].content.functions :
                                     bFiles[i].content.functions[j].hash_raises } } :
            i \in FilesDone }
FailedFiles == { i \in FilesDone : bFiles[i].content.outcome # "parsed" }

\* C16: a semantic hash that cannot be computed is counted in the errors of
\* the scan, and the callable is left out of the classification: the report
\* counts it neither fresh nor stale nor undocumented.
C16_HashFailureCounted ==
    /\ Len(bResult.errors) = Cardinality(FailedFiles) + Cardinality(HashFailures)
    /\ (bPc = "reported" /\ bReport # NoneV) =>
            total_nodes(bReport[1]) = Len(bResult.nodes) - Cardinality(HashFailures)

\* C17: a file that cannot be read or parsed is recorded once in the errors
\* with its path and message, adds no node and no edge, and does not end the
\* build: the files after it are processed and their callables are in the
\* result.
C17_FailedFileRecorded ==
    /\ \A i \in FailedFiles :
          /\ Cardinality({ k \in DOMAIN bResult.errors :
                            bResult.errors[k][1] = bFiles[i].path }) = 1
          /\ << bFiles[i].path, bFiles[i].content.outcome >>
                \in { bResult.errors[k] : k \in DOMAIN bResult.errors }
          /\ \A k \in DOMAIN bResult.nodes :
                bResult.nodes[k].file_path # bFiles[i].path
          /\ \A k \in DOMAIN bResult.edges :
                bResult.edges[k].caller_id[1] # bFiles[i].path
    /\ \A i \in FilesDone \ FailedFiles :
          \A f \in DOMAIN bFiles[i].content.functions :
              \E k \in DOMAIN bResult.nodes :
                  bResult.nodes[k].id
                    = << bFiles[i].path, bFiles[i].content.functions[f].name >>
    /\ bPc # "building" => bIdx = Len(bFiles)
    /\ bResult.files_scanned = Cardinality(FilesDone \ FailedFiles)

\* The scan went past a file that does not parse and took the callables of
\* the file after it.
C17_Witness ==
    /\ bPc = "exited"
    /\ 1 \in FailedFiles
    /\ 2 \in FilesDone \ FailedFiles
    /\ bResult.nodes # << >> /\ bResult.edges # << >>

\* C28: every candidate file is accounted for exactly once.  Every file
\* the build has been through is either counted in files_scanned or
\* recorded once in the errors, never both, so that at the end of the
\* build files_scanned + error_count is the number of candidate files; and
\* every node and every edge of the result comes from a counted file.
C28_FilesAccounted ==
    LET error_count == Len(bResult.errors)
        Recorded(i) == { k \in DOMAIN bResult.errors :
                            bResult.errors[k][1] = bFiles[i].path }
        counted == { i \in FilesDone : Recorded(i) = {} }
    IN  /\ bResult.files_scanned + error_count = bIdx
        /\ bPc # "building" => bResult.files_scanned + error_count = Len(bFiles)
        /\ \A i \in FilesDone : Cardinality(Recorded(i)) <= 1
        /\ bResult.files_scanned = Cardinality(counted)
        /\ \A k \in DOMAIN bResult.nodes :
              \E i \in counted : bResult.nodes[k].file_path = bFiles[i].path
        /\ \A k \in DOMAIN bResult.edges :
              \E i \in counted : bResult.edges[k].caller_id[1] = bFiles[i].path

\* The build of a directory of one file that fails and one file with
\* functions has ended.
C28_Witness ==
    /\ bPc = "exited"
    /\ bResult.files_scanned = 1
    /\ Len(bResult.errors) = 1
    /\ bResult.nodes # << >>

\* C18: the scan command exits with status 0 when no file failed and with
\* status 1 when a file failed; either way the snapshots are persisted.
C18_ExitStatus ==
    bPc = "exited" =>
        /\ bExit = Some(IF bResult.errors = << >> THEN 0 ELSE 1)
        /\ dbNodes = save_nodes(<< >>, bResult.nodes, Some(ScanIdOf(1)))
        /\ Len(dbScans) = 1

----------------------------------------------------------------------------
(* SpecCalls: CallCollector visits one file.  The file is given by the    *)
(* outline of its definitions and of its call expressions; a call is in    *)
(* the body of the definition that encloses it, or in the header of a      *)
(* function definition (a decorator or a default value), which libcst      *)
(* visits after visit_FunctionDef of that definition.                      *)

MaxItems == 3       \* definitions and call expressions in the file
MaxChain == 2       \* nesting of the called expression of a call

Attribute(value, attr) == [type |-> "Attribute", value |-> value, attr |-> Name(attr)]
Call(func) == [type |-> "Call", func |-> func, args |-> << >>]
Subscript(value) == [type |-> "Subscript", value |-> value, slice |-> << >>]
Lambda == [type |-> "Lambda", params |-> << >>, body |-> Name("x")]

\* The expressions a call can call, up to a nesting of n.
RECURSIVE CalledExpressions(_)
CalledExpressions(n) ==
    IF n = 0 THEN { Name("a"), Name("b"), Lambda }
    ELSE LET inner == CalledExpressions(n - 1)
         IN  inner
             \cup { Attribute(e, a) : e \in inner, a \in {"b", "c"} }
             \cup { Call(e) : e \in inner }
             \cup { Subscript(e) : e \in inner }

\* The called expressions of the Call nodes inside an expression, in the
\* order libcst visits them.
RECURSIVE InnerCalls(_)
InnerCalls(e) ==
    IF e.type = "Call" THEN << e.func >> \o InnerCalls(e.func)
    ELSE IF e.type \in {"Attribute", "Subscript"} THEN InnerCalls(e.value)
    ELSE << >>

\* The called expressions of the Call nodes of the call `func(...)`.
CallNodes(func) == << func >> \o InnerCalls(func)

CallItems(depths, funcs) ==
    [depth : depths, kind : {"call"}, place : {"body", "header"}, func : funcs]

OutlineFuncs == { Name("a"), Subscript(Name("a")) }

\* A definition or call is nested at most one level deeper than the
\* definition before it, nothing is nested in a call, and a call in a
\* header follows the function definition it belongs to.
CallOutlines ==
    { o \in SeqsUpTo(OutlineItems(0..(MaxItems - 1))
                     \cup CallItems(0..(MaxItems - 1), OutlineFuncs), MaxItems) :
        /\ o # << >> => o[1].depth = 0
        /\ \A i \in 1..(Len(o) - 1) :
              o[i + 1].depth <= o[i].depth + (IF o[i].kind = "call" THEN 0 ELSE 1)
        /\ \A i \in 1..Len(o) :
              (o[i].kind = "call" /\ o[i].place = "header") =>
                  /\ i > 1
                  /\ o[i - 1].kind = "def"
                  /\ o[i - 1].depth = o[i].depth - 1 }

\* One called expression of every kind, inside a method.
CalleeOutlines ==
    { << [depth |-> 0, kind |-> "class", name |-> "K"],
         [depth |-> 1, kind |-> "def", name |-> "f"],
         [depth |-> 2, kind |-> "call", place |-> "body", func |-> e] >> :
      e \in CalledExpressions(MaxChain) }

\* The calls wrapper.visit(collector) makes on CallCollector: the visits
\* and leaves of the definitions, and one visit_Call for every Call node.
RECURSIVE CallCollectorEvents(_, _)
CallCollectorEvents(outline, events) ==
    IF events = << >> THEN << >>
    ELSE LET e == Head(events)
             item == outline[e.index]
         IN  (IF item.kind # "call"
              THEN << [op |-> e.op, index |-> e.index, sub |-> 0] >>
              ELSE IF e.op = "leave" THEN << >>
              ELSE [s \in 1..Len(CallNodes(item.func)) |->
                       [op |-> "call", index |-> e.index, sub |-> s]])
             \o CallCollectorEvents(outline, Tail(events))

CallEvents(outline) == CallCollectorEvents(outline, Walk(outline, 1, << >>))

InitCalls ==
    /\ kOutline \in CallOutlines
    /\ kPos = 1
    /\ kCalls = << >>
    /\ kClassStack = << >>
    /\ kFunctionStack = << >>
    /\ kInFunction = FALSE
    /\ ClassifyIdle /\ HashIdle /\ ExtractIdle /\ DbIdle /\ StoreIdle /\ ScanIdle
    /\ OpsIdle /\ ReportIdle /\ GraphIdle /\ BuildIdle

InitCallee ==
    /\ kOutline \in CalleeOutlines
    /\ kPos = 1
    /\ kCalls = << >>
    /\ kClassStack = << >>
    /\ kFunctionStack = << >>
    /\ kInFunction = FALSE
    /\ ClassifyIdle /\ HashIdle /\ ExtractIdle /\ DbIdle /\ StoreIdle /\ ScanIdle
    /\ OpsIdle /\ ReportIdle /\ GraphIdle /\ BuildIdle

otherThanCalls ==
    <<classVars, hashVars, extractVars, dbVars, storeVars, scanVars, opsVars,
      reportVars, graphVars, buildVars>>

\* The next call on the collector is `op` on an item of the given kind.
AtCallEvent(op, kind) ==
    /\ kPos <= Len(CallEvents(kOutline))
    /\ CallEvents(kOutline)[kPos].op = op
    /\ kOutline[CallEvents(kOutline)[kPos].index].kind = kind

CallIndex == CallEvents(kOutline)[kPos].index

\* The called expression of the Call node visit_Call is called on.
CallFunc == CallNodes(kOutline[CallIndex].func)[CallEvents(kOutline)[kPos].sub]

CallCollector_visit_ClassDef ==
    /\ AtCallEvent("visit", "class")
    /\ kClassStack' = Append(kClassStack, kOutline[CallIndex].name)
    /\ kPos' = kPos + 1
    /\ UNCHANGED <<kOutline, kCalls, kFunctionStack, kInFunction, otherThanCalls>>

CallCollector_leave_ClassDef ==
    /\ AtCallEvent("leave", "class")
    /\ kClassStack' = SubSeq(kClassStack, 1, Len(kClassStack) - 1)
    /\ kPos' = kPos + 1
    /\ UNCHANGED <<kOutline, kCalls, kFunctionStack, kInFunction, otherThanCalls>>

CallCollector_visit_FunctionDef ==
    /\ AtCallEvent("visit", "def")
    /\ kFunctionStack' = Append(kFunctionStack, kOutline[CallIndex].name)
    /\ kInFunction' = TRUE
    /\ kPos' = kPos + 1
    /\ UNCHANGED <<kOutline, kCalls, kClassStack, otherThanCalls>>

\* A leave_FunctionDef that does not look at the stack.
in_function_stays(function_stack) == TRUE

\* What leave_FunctionDef assigns to _in_function once it has popped.
in_function_on_leave(function_stack) == Len(function_stack) > 0

CallCollector_leave_FunctionDef ==
    /\ AtCallEvent("leave", "def")
    /\ kFunctionStack' = SubSeq(kFunctionStack, 1, Len(kFunctionStack) - 1)
    /\ kInFunction' = in_function_on_leave(kFunctionStack')
    /\ kPos' = kPos + 1
    /\ UNCHANGED <<kOutline, kCalls, kClassStack, otherThanCalls>>

\* An _extract_callee_name that gives up on an attribute chain whose
\* innermost value is not a name.
RECURSIVE callee_of_names_only(_)
callee_of_names_only(node) ==
    IF node.type = "Name" THEN Some(node.value)
    ELSE IF node.type = "Attribute"
    THEN LET base == callee_of_names_only(node.value)
         IN  IF base = NoneV THEN NoneV ELSE Some(base[1] \o node.attr.value)
    ELSE NoneV

\* The parts the loop of _extract_callee_name collects, reversed: the
\* attribute names from the innermost to the outermost, after the name
\* the chain starts with when it starts with one.
RECURSIVE callee_parts(_)
callee_parts(current) ==
    IF current.type = "Attribute"
    THEN callee_parts(current.value) \o current.attr.value
    ELSE IF current.type = "Name" THEN current.value
    ELSE << >>

\* The callee name as the sequence of the parts joined with ".".
_extract_callee_name(node) ==
    IF node.type = "Name" THEN Some(node.value)
    ELSE IF node.type = "Attribute" THEN Some(callee_parts(node))
    ELSE NoneV

visit_Call ==
    /\ AtCallEvent("call", "call")
    /\ LET caller_name == << ModuleName >> \o kClassStack \o kFunctionStack
           callee_name == _extract_callee_name(CallFunc)
       IN  kCalls' = IF ~kInFunction \/ callee_name = NoneV THEN kCalls
                     ELSE Append(kCalls,
                              [caller_qualified_name |-> caller_name,
                               callee_name |-> callee_name[1],
                               call_line |-> CallIndex])
    /\ kPos' = kPos + 1
    /\ UNCHANGED <<kOutline, kClassStack, kFunctionStack, kInFunction, otherThanCalls>>

NextCalls ==
    \/ CallCollector_visit_ClassDef
    \/ CallCollector_leave_ClassDef
    \/ CallCollector_visit_FunctionDef
    \/ CallCollector_leave_FunctionDef
    \/ visit_Call

SpecCalls == InitCalls /\ [][NextCalls]_vars

SpecCallee == InitCallee /\ [][NextCalls]_vars

CallsDone == kPos > Len(CallEvents(kOutline))

\* The function definitions on the traversal stack when item i is visited.
FunctionsOnStack(outline, i) == NamesOf(outline, Enclosing(outline, i), "def")

\* C22: a CallInfo is emitted for a call expression only while a function
\* definition is on the traversal stack; a call at module level or in the
\* body of a class outside every function is never emitted, also after a
\* function definition has been left.
C22_OnlyInsideFunction ==
    \A i \in DOMAIN kOutline :
        (kOutline[i].kind = "call" /\ FunctionsOnStack(kOutline, i) = << >>) =>
            \A k \in DOMAIN kCalls : kCalls[k].call_line # i

\* A file visited to its end in which a call inside a function was emitted
\* and a later call with a nameable callee, outside every function, was not.
C22_Witness ==
    /\ CallsDone
    /\ \E i, j \in DOMAIN kOutline :
          /\ i < j
          /\ kOutline[i].kind = "call" /\ kOutline[j].kind = "call"
          /\ \E k \in DOMAIN kCalls : kCalls[k].call_line = i
          /\ FunctionsOnStack(kOutline, j) = << >>
          /\ _extract_callee_name(kOutline[j].func) # NoneV

\* The qualified name FunctionCollector gives definition j of the outline.
QualifiedNameOf(outline, j) ==
    << ModuleName >>
    \o NamesOf(outline, Enclosing(outline, j), "class")
    \o NamesOf(outline, Enclosing(outline, j), "def")
    \o << outline[j].name >>

\* The innermost function definition that lexically encloses call i: a
\* decorator or default value is evaluated outside the function it is on.
LexicalFunction(outline, i) ==
    IF outline[i].place = "header" THEN ParentCallable(outline, i - 1)
    ELSE ParentCallable(outline, i)

\* C29 as stated: the caller of every emitted call is a function of the
\* file, namely the innermost function definition that lexically encloses
\* the call expression (so caller_id is the id of that function's CodeNode).
C29_RealCaller ==
    \A k \in DOMAIN kCalls :
        LET enclosing == LexicalFunction(kOutline, kCalls[k].call_line)
        IN  /\ enclosing # NoneV
            /\ kCalls[k].caller_qualified_name = QualifiedNameOf(kOutline, enclosing[1])

\* An attribute chain of names: a name, or an attribute taken on one.
RECURSIVE IsNameChain(_)
IsNameChain(e) ==
    \/ e.type = "Name"
    \/ e.type = "Attribute" /\ IsNameChain(e.value)

\* The expression an attribute chain starts with, and its attribute names
\* in source order.
RECURSIVE ChainBase(_)
ChainBase(e) == IF e.type = "Attribute" THEN ChainBase(e.value) ELSE e

RECURSIVE ChainAttrs(_)
ChainAttrs(e) ==
    IF e.type = "Attribute" THEN ChainAttrs(e.value) \o e.attr.value ELSE << >>

\* visit_Call is called on a Call node inside a function.
VisitsCallInFunction == AtCallEvent("call", "call") /\ kInFunction /\ kPos' = kPos + 1

\* The step emits exactly one CallInfo, with the given callee name.
EmitsCallee(callee_name) ==
    /\ Len(kCalls') = Len(kCalls) + 1
    /\ SubSeq(kCalls', 1, Len(kCalls)) = kCalls
    /\ kCalls'[Len(kCalls')].callee_name = callee_name

\* C23 as stated: the callee name is the identifier when the called
\* expression is a bare identifier and the dotted string when it is an
\* attribute chain of names; for anything else (also an attribute taken on
\* a call or subscript result) no call site is emitted.
C23_CalleeAsStated ==
    [][VisitsCallInFunction =>
          IF IsNameChain(CallFunc)
          THEN EmitsCallee(ChainBase(CallFunc).value \o ChainAttrs(CallFunc))
          ELSE kCalls' = kCalls]_vars

\* C23 amended: the callee name is the identifier when the called
\* expression is a bare identifier; when it is an attribute expression, the
\* dotted string of the attribute names of the chain, preceded by the name
\* the chain starts with if it starts with a name (so `a.b.c` for a.b.c()
\* and `b` for a().b() and a[0].b()); for anything else (a subscript, a
\* call of a call, a lambda) no call site is emitted.
C23_CalleeName ==
    [][VisitsCallInFunction =>
          IF CallFunc.type = "Name" THEN EmitsCallee(CallFunc.value)
          ELSE IF CallFunc.type = "Attribute"
          THEN EmitsCallee((IF ChainBase(CallFunc).type = "Name"
                            THEN ChainBase(CallFunc).value ELSE << >>)
                           \o ChainAttrs(CallFunc))
          ELSE kCalls' = kCalls]_vars

\* A call site was emitted for an attribute taken on a call or subscript
\* result, named by the attribute names alone.
C23_Witness ==
    \E k \in DOMAIN kCalls :
        LET nodes == CallNodes(kOutline[kCalls[k].call_line].func)
        IN  \E s \in DOMAIN nodes :
                /\ nodes[s].type = "Attribute"
                /\ ChainBase(nodes[s]).type \in {"Call", "Subscript"}
                /\ kCalls[k].callee_name = ChainAttrs(nodes[s])

----------------------------------------------------------------------------
(* SpecClassify: detect_node_drift applied to every combination of inputs *)

MaxDocLen == 2
DocChars == {" ", "a"}

\* The fingerprints the classifier compares ("" is a failed semantic hash).
SemHashes == {<< >>, sha256_hexdigest(<<"1">>), sha256_hexdigest(<<"2">>)}
DocHashes == {NoneV, Some(sha256_hexdigest(<<"a">>)), Some(sha256_hexdigest(<<"b">>))}
Docstrings == {NoneV} \cup { Some(s) : s \in SeqsUpTo(DocChars, MaxDocLen) }

ClassifyNodes ==
    [docstring : Docstrings, doc_hash : DocHashes, semantic_hash : SemHashes]
ClassifySnapshots ==
    {NoneV} \cup { Some(s) : s \in [semantic_hash : SemHashes, doc_hash : DocHashes] }

InitClassify ==
    /\ cNode \in ClassifyNodes
    /\ cStored \in ClassifySnapshots
    /\ cStatus = "pending"
    /\ HashIdle /\ ExtractIdle /\ DbIdle /\ StoreIdle /\ ScanIdle /\ MoreIdle

Classify ==
    /\ cStatus = "pending"
    /\ cStatus' = detect_node_drift(cNode, cStored)
    /\ UNCHANGED <<cNode, cStored, hashVars, extractVars, dbVars, storeVars, scanVars, moreVars>>

NextClassify == Classify

SpecClassify == InitClassify /\ [][NextClassify]_vars

\* C1: detect_node_drift returns exactly one of the three statuses, and
\* the rules apply in order, first match wins: no docstring gives
\* UNDOCUMENTED whatever the snapshot and fingerprints are; otherwise no
\* snapshot gives FRESH; otherwise equal semantic fingerprints give FRESH;
\* otherwise differing doc fingerprints give FRESH; otherwise STALE.
C1_RulesInOrder ==
    cStatus # "pending" =>
        LET documented == cNode.docstring # NoneV
                          /\ \E i \in 1..Len(cNode.docstring[1]) :
                                cNode.docstring[1][i] # " "
            hasSnap == cStored # NoneV
            semEq == hasSnap /\ cNode.semantic_hash = cStored[1].semantic_hash
            docEq == hasSnap /\ cNode.doc_hash = cStored[1].doc_hash
        IN  /\ cStatus \in DriftStatus
            /\ ~documented => cStatus = UNDOCUMENTED
            /\ documented /\ ~hasSnap => cStatus = FRESH
            /\ documented /\ hasSnap /\ semEq => cStatus = FRESH
            /\ documented /\ hasSnap /\ ~semEq /\ ~docEq => cStatus = FRESH
            /\ documented /\ hasSnap /\ ~semEq /\ docEq => cStatus = STALE

\* Rule 1 fired although a snapshot with equal fingerprints is stored
\* (scenario D), so rule order mattered.
C1_Witness ==
    /\ cStatus = UNDOCUMENTED
    /\ cStored # NoneV
    /\ cNode.docstring # NoneV
    /\ cNode.semantic_hash = cStored[1].semantic_hash

====
